---- MODULE Spec2Model ----
(***************************************************************************)
(* Model of the go-wati request executor (Client.DoRequest in client.go)   *)
(* and of the error taxonomy (NewWATIError, NetworkError).                 *)
(*                                                                         *)
(* One client issues DoRequest calls one after another.  A call moves      *)
(* through the places where the Go code can block:                         *)
(*   "ratewait"  c.rateLimiter.Wait(ctx)              (client.go:177)      *)
(*   "inflight"  c.httpClient.Do(req)                 (client.go:220)      *)
(*   "backoff"   select on ctx.Done() / time.After    (client.go:213-217)  *)
(* and ends in "done" with the returned error in ret.  The caller's        *)
(* context may be cancelled while the call is at any of the three places.  *)
(***************************************************************************)
EXTENDS Integers, Sequences, FiniteSets, TLC

\* ------------------------------------------------------------------ bounds
MaxRetryCount == 2      \* config.RetryCount ranges over -1..MaxRetryCount
MaxBurst == 1           \* config.RateLimit.BurstSize ranges over 1..MaxBurst
MaxCalls == 1           \* DoRequest calls issued on the client
MaxStatusCode == 600    \* status codes classified range over 0..MaxStatusCode
MaxList == 2            \* recipients, buttons, contacts, events per request
MaxSections == 1        \* sections per list message and rows per section
MaxPayloadLen == 2      \* bytes of a payload handed to ValidateSignature
MaxSecretLen == 2       \* bytes of a webhook secret
MaxThreads == 2         \* threads calling StartWebhookServer / StopWebhookServer
MaxStarts == 2          \* http.Server values created before callers stop starting
\* options handed to one NewClient call
MaxOptions == 2
\* "/" characters at the end of an endpoint argument
MaxSlashes == 2
\* RotateToken calls
MaxRotations == 3
\* requests the sequential caller sends
MaxSends == 4
\* the time the clock runs to, in milliseconds
MaxClock == 3000
\* requests on /webhook served at the same time
MaxRequests == 2
\* the TotalPages a contacts backend reports range over -1..MaxPages
MaxPages == 4
\* contacts on one page
MaxPageContacts == 3

\* time.Second; durations are counted in milliseconds
Second == 1000
\* the step of the clock, in milliseconds
TickMs == Second \div 4

RetryCounts == -1..MaxRetryCount
BurstSizes == 1..MaxBurst
StatusCodes == 0..MaxStatusCode

\* ------------------------------------------------------------------ inputs
Methods == {"GET", "POST", "BAD METHOD"}
Endpoints == {"/x"}
\* the body argument: nil, a value json.Marshal encodes, a value it rejects
BodyArgs == {"nil", "value", "unmarshalable"}
\* the result argument: nil or a pointer to decode into
ResultArgs == {"nil", "ptr"}

\* Response bodies.  raw is the byte string; json tells whether the bytes
\* are a JSON object; obj holds the object's string members.
Bodies ==
  { [raw |-> "", json |-> FALSE, obj |-> {}],
    [raw |-> "<html>oops</html>", json |-> FALSE, obj |-> {}],
    [raw |-> "{\"result\":true}", json |-> TRUE, obj |-> {}],
    [raw |-> "{\"result\":false,\"error\":\"invalid request\"}", json |-> TRUE,
       obj |-> {<<"error", "invalid request">>}],
    [raw |-> "{\"result\":true,\"message\":\"success\"}", json |-> TRUE,
       obj |-> {<<"message", "success">>}],
    [raw |-> "{\"error\":\"e1\",\"message\":\"m1\"}", json |-> TRUE,
       obj |-> {<<"error", "e1">>, <<"message", "m1">>}] }

EmptyBody == [raw |-> "", json |-> FALSE, obj |-> {}]

\* status codes the modelled backend answers with
Statuses == {200, 400, 429, 500}

NoResp == [present |-> FALSE, status |-> 0, body |-> EmptyBody]
Resp(s, b) == [present |-> TRUE, status |-> s, body |-> b]

\* ------------------------------------------------------------------ errors
\* One record shape for every error value the executor returns.
\*   kind "nil"      no error
\*   kind "errorf"   fmt.Errorf(Message + ": %w", Err)
\*   kind "ctx"      ctx.Err()
\*   kind "network"  *NetworkError{Operation, Err}
\*   kind "wati"     *WATIError{Code, Message, Type}
MkErr(k, c, m, t, o, e) ==
  [kind |-> k, Code |-> c, Message |-> m, Type |-> t, Operation |-> o, Err |-> e]

NoError == MkErr("nil", 0, "", "", "", "nil")
CtxErr == MkErr("ctx", 0, "", "", "", "ctx")
Errorf(prefix, cause) == MkErr("errorf", 0, prefix, "", "", cause)
NetworkError(op, cause) == MkErr("network", 0, "", "", op, cause)

\* faulty variant of the classifier: the 405 row is missing
NewWATIError_No405(statusCode, message) ==
  LET errorType ==
        CASE statusCode = 400 -> "bad_request"
          [] statusCode = 401 -> "authentication"
          [] statusCode = 403 -> "authorization"
          [] statusCode = 404 -> "not_found"
          [] statusCode = 429 -> "rate_limit"
          [] statusCode = 500 -> "server_error"
          [] OTHER -> IF statusCode >= 500 THEN "server_error"
                      ELSE IF statusCode >= 400 THEN "client_error"
                      ELSE "unknown"
  IN MkErr("wati", statusCode, message, errorType, "", "nil")

NewWATIError(statusCode, message) ==
  LET errorType ==
        CASE statusCode = 400 -> "bad_request"
          [] statusCode = 401 -> "authentication"
          [] statusCode = 403 -> "authorization"
          [] statusCode = 404 -> "not_found"
          [] statusCode = 405 -> "method_not_allowed"
          [] statusCode = 429 -> "rate_limit"
          [] statusCode = 500 -> "server_error"
          [] OTHER -> IF statusCode >= 500 THEN "server_error"
                      ELSE IF statusCode >= 400 THEN "client_error"
                      ELSE "unknown"
  IN MkErr("wati", statusCode, message, errorType, "", "nil")

IsRetryable(e) == e.Code >= 500 \/ e.Code = 429

\* errors.Is(err, ctx.Err()): the error is, or wraps, the context's error
IsCancellation(e) == e.kind = "ctx" \/ e.Err = "ctx"
IsNetworkError(e) == e.kind = "network"
IsWATIError(e) == e.kind = "wati"

\* ------------------------------------------------------------------ state
VARIABLES
  retryCount,   \* c.config.RetryCount
  burstSize,    \* c.config.RateLimit.BurstSize
  tokens,       \* tokens in c.rateLimiter's bucket
  calls,        \* DoRequest calls started so far
  pc,           \* where the current call is
  cancelled,    \* ctx.Done() is closed
  method, endpoint, body, result,   \* the call's arguments
  out,          \* what *result holds
  attempt,      \* the loop variable
  resp,         \* resp of client.go:207
  respClosed,   \* resp.Body.Close() was called
  lastErr,      \* lastErr of client.go:208
  ret,          \* the error DoRequest returned
  bodyLeft,     \* the request body reader has unread bytes
  acquired,     \* tokens this call took from the bucket
  attempts,     \* c.httpClient.Do calls of this call
  outcomes,     \* how each finished Do call ended: error or status
  sentBodies,   \* whether each Do call had the request body to send
  waits,        \* the backoff waits that ran to completion
  waiting,      \* duration of the backoff wait in progress
  code, werr,   \* input and output of the error classifier
  facPc,        \* where the current facade operation is
  facOp,        \* the facade operation called
  facReq,       \* its request argument
  facErr,       \* the error it returned
  facBase,      \* DoRequest calls started before it was called
  vPayload, vSignature, vSecret,   \* the arguments of ValidateSignature
  vResult,      \* what it returned
  IsRunning,    \* s.server.IsRunning
  Port,         \* s.server.Port
  Secret,       \* s.server.Secret
  Handlers,     \* s.server.Handlers
  mutex,        \* the thread that holds s.mutex for writing, 0 if none
  thr,          \* each caller thread: the service call it is in, its result
  servers,      \* the http.Server values created; s.server.server is the last
  pending,      \* goroutines that have not yet called ListenAndServe
  httpReq,      \* the HTTP request on /webhook being served
  invoked,      \* the events handed to handlers while serving it
  pSrc,         \* the WebhookEvent that was JSON-encoded, if one was
  pWire,        \* the payload handed to ParseWebhookEvent
  pOut,         \* what ParseWebhookEvent returned
  opts,         \* the options argument of NewClient
  clientConfig, \* *c.config
  built,        \* NewClient has returned
  setter,       \* the thread calling SetToken or SetAPIEndpoint
  getter,       \* the thread inside DoRequest, reading the configuration
  clock,        \* the time, in milliseconds since NewClient
  limiter,      \* c.rateLimiter: its tokens (in thousandths) and their time
  sends,        \* the times at which requests reached the backend
  rateCall,     \* the sequential caller: where its DoRequest call is
  health,       \* the HTTP request on /health being served
  reqs,         \* the requests on /webhook served at the same time
  ran,          \* for each of them, the events its handler was called with
  totalPages,   \* the TotalPages the contacts backend reports
  pager,        \* the GetAllContacts call
  rotation      \* the thread calling RotateToken, and what its calls did

vars == <<retryCount, burstSize, tokens, calls, pc, cancelled, method,
          endpoint, body, result, out, attempt, resp, respClosed, lastErr,
          ret, bodyLeft, acquired, attempts, outcomes, sentBodies, waits,
          waiting, code, werr, facPc, facOp, facReq, facErr, facBase,
          vPayload, vSignature, vSecret, vResult, IsRunning, Port, Secret,
          Handlers, mutex, thr, servers, pending, httpReq, invoked, pSrc,
          pWire, pOut, opts, clientConfig, built, setter, getter, clock,
          limiter, sends, rateCall, health, reqs, ran, totalPages, pager,
          rotation>>

cfgVars == <<retryCount, burstSize>>
argVars == <<method, endpoint, body, result>>
errVars == <<code, werr>>
\* the executor's state
doVars == <<cfgVars, tokens, calls, pc, cancelled, argVars, out, attempt, resp,
            respClosed, lastErr, ret, bodyLeft, acquired, attempts, outcomes,
            sentBodies, waits, waiting>>
facVars == <<facPc, facOp, facReq, facErr, facBase>>
\* the state of the services built on the executor
sigVars == <<vPayload, vSignature, vSecret, vResult>>
wsVars == <<IsRunning, Port, Secret, Handlers, mutex, thr, servers, pending,
           httpReq, invoked>>
parseVars == <<pSrc, pWire, pOut>>
\* the state outside the executor, the facades, the signature check and
\* the webhook server
confVars == <<opts, clientConfig, built, setter, getter>>
rateVars == <<clock, limiter, sends, rateCall>>
healthVars == <<health>>
reqVars == <<reqs, ran>>
pageVars == <<totalPages, pager>>
rotVars == <<rotation>>
extVars == <<parseVars, confVars, rateVars, healthVars, reqVars, pageVars,
             rotVars>>
svcVars == <<facVars, sigVars, wsVars, extVars>>
\* what the facade operations leave alone
facOthers == <<sigVars, wsVars, extVars>>
\* what a signature check leaves alone
sigOthers == <<facVars, wsVars, extVars>>
\* what the webhook server leaves alone
wsOthers == <<doVars, errVars, facVars, sigVars, extVars>>
\* what the decoding of an event leaves alone
parseOthers == <<doVars, errVars, facVars, sigVars, wsVars, confVars,
                 rateVars, healthVars, reqVars, pageVars, rotVars>>
\* what the configuration's operations leave alone
confOthers == <<doVars, errVars, facVars, sigVars, wsVars, parseVars,
                rateVars, healthVars, reqVars, pageVars, rotVars>>
confOthersButRotation == <<doVars, errVars, facVars, sigVars, wsVars,
                           parseVars, rateVars, healthVars, reqVars,
                           pageVars>>
\* what the paced calls leave alone
rateOthers == <<doVars, errVars, facVars, sigVars, wsVars, parseVars,
                opts, built, setter, getter, healthVars, reqVars, pageVars,
                rotVars>>
\* what a /health request leaves alone
healthOthers == <<doVars, errVars, facVars, sigVars, parseVars, confVars,
                  rateVars, reqVars, pageVars, rotVars>>
\* what the requests served at the same time leave alone
reqOthers == <<doVars, errVars, facVars, sigVars, parseVars, confVars,
               rateVars, healthVars, pageVars, rotVars>>
\* what GetAllContacts leaves alone
pageOthers == <<doVars, errVars, facVars, sigVars, wsVars, parseVars,
                confVars, rateVars, healthVars, reqVars, rotVars>>

Unwritten == [written |-> FALSE, value |-> EmptyBody]

\* ------------------------------------------------- facade request values
\* string fields: absent or present
Names == {"", "n"}
\* phone numbers: absent, too short, long enough
Phones == {"", "12345", "15551234567"}

\* a nil pointer
NilReq == [nil |-> TRUE]
IsNil(r) == "nil" \in DOMAIN r

\* the sequences over S of length 0..n
SeqsUpTo(S, n) == UNION {[1..k -> S] : k \in 0..n}
\* the sequence of n copies of x
Repeat(x, n) == [i \in 1..n |-> x]
\* the first position of a sequence of validation results that is not
\* "nil", 0 if there is none
FirstBad(v) ==
  IF \E i \in 1..Len(v) : v[i] # "nil"
    THEN CHOOSE i \in 1..Len(v) :
           /\ v[i] # "nil"
           /\ \A j \in 1..(i - 1) : v[j] = "nil"
    ELSE 0
\* fmt.Sprintf("%s %d", msg, i) for the Go index of position i
Indexed(msg, i) == msg \o " " \o ToString(i - 1)

\* limits the validators apply
MinPhoneDigits == 10
MaxPerRequest == 100
MaxButtonCount == 3

SendTemplateMessageRequests ==
  [WhatsappNumber : Phones, TemplateName : Names, BroadcastName : Names]

\* (r *SendTemplateMessageRequest) Validate
ValidateSendTemplateMessage(r) ==
  IF r.WhatsappNumber = "" THEN "whatsappNumber is required"
  ELSE IF r.TemplateName = "" THEN "template_name is required"
  ELSE IF r.BroadcastName = "" THEN "broadcast_name is required"
  ELSE IF Len(r.WhatsappNumber) < MinPhoneDigits
    THEN "whatsappNumber must be at least 10 digits"
  ELSE "nil"

Recipients == [WhatsappNumber : Phones]
ValidRecipient == [WhatsappNumber |-> "15551234567"]
RecipientLists ==
  SeqsUpTo(Recipients, MaxList)
    \cup {Repeat(ValidRecipient, MaxPerRequest),
          Repeat(ValidRecipient, MaxPerRequest + 1)}
SendTemplateMessagesRequests ==
  [TemplateName : Names, BroadcastName : Names, Recipients : RecipientLists]

ValidateRecipient(x) ==
  IF x.WhatsappNumber = "" THEN "whatsappNumber is required for recipient"
  ELSE IF Len(x.WhatsappNumber) < MinPhoneDigits
    THEN "whatsappNumber must be at least 10 digits for recipient"
  ELSE "nil"

\* (r *SendTemplateMessagesRequest) Validate
ValidateSendTemplateMessages(r) ==
  IF r.TemplateName = "" THEN "template_name is required"
  ELSE IF r.BroadcastName = "" THEN "broadcast_name is required"
  ELSE IF Len(r.Recipients) = 0 THEN "at least one recipient is required"
  ELSE IF Len(r.Recipients) > MaxPerRequest
    THEN "maximum 100 recipients allowed per request"
  ELSE LET i == FirstBad([k \in DOMAIN r.Recipients |-> ValidateRecipient(r.Recipients[k])])
       IN IF i = 0 THEN "nil"
          ELSE Indexed(ValidateRecipient(r.Recipients[i]), i)

Rows == [ID : Names, Title : Names]
Sections == [Title : Names, Rows : SeqsUpTo(Rows, MaxSections)]
InteractiveListMessageRequests ==
  [WhatsappNumber : Phones, BodyText : Names, Button : Names,
   Sections : SeqsUpTo(Sections, MaxSections)]

ValidateRow(x) ==
  IF x.ID = "" THEN "row ID is required"
  ELSE IF x.Title = "" THEN "row title is required"
  ELSE "nil"

ValidateSection(x) ==
  IF x.Title = "" THEN "section title is required for section"
  ELSE IF Len(x.Rows) = 0 THEN "at least one row is required for section"
  ELSE LET j == FirstBad([k \in DOMAIN x.Rows |-> ValidateRow(x.Rows[k])])
       IN IF j = 0 THEN "nil" ELSE Indexed(ValidateRow(x.Rows[j]), j)

\* (r *InteractiveListMessageRequest) Validate
ValidateInteractiveList(r) ==
  IF r.WhatsappNumber = "" THEN "whatsappNumber is required"
  ELSE IF Len(r.WhatsappNumber) < MinPhoneDigits
    THEN "whatsappNumber must be at least 10 digits"
  ELSE IF r.BodyText = "" THEN "body text is required"
  ELSE IF r.Button = "" THEN "action button text is required"
  ELSE IF Len(r.Sections) = 0 THEN "at least one section is required"
  ELSE LET i == FirstBad([k \in DOMAIN r.Sections |-> ValidateSection(r.Sections[k])])
       IN IF i = 0 THEN "nil"
          ELSE Indexed(ValidateSection(r.Sections[i]), i)

Buttons == [ID : Names, Title : Names]
ButtonLists ==
  SeqsUpTo(Buttons, MaxList)
    \cup {Repeat([ID |-> "n", Title |-> "n"], MaxButtonCount + 1)}
InteractiveButtonMessageRequests ==
  [WhatsappNumber : Phones, BodyText : Names, Buttons : ButtonLists]

ValidateButton(x) ==
  IF x.ID = "" THEN "button ID is required for button"
  ELSE IF x.Title = "" THEN "button title is required for button"
  ELSE "nil"

\* (r *InteractiveButtonMessageRequest) Validate
ValidateInteractiveButton(r) ==
  IF r.WhatsappNumber = "" THEN "whatsappNumber is required"
  ELSE IF Len(r.WhatsappNumber) < MinPhoneDigits
    THEN "whatsappNumber must be at least 10 digits"
  ELSE IF r.BodyText = "" THEN "body text is required"
  ELSE IF Len(r.Buttons) = 0 THEN "at least one button is required"
  ELSE IF Len(r.Buttons) > MaxButtonCount THEN "maximum 3 buttons allowed"
  ELSE LET i == FirstBad([k \in DOMAIN r.Buttons |-> ValidateButton(r.Buttons[k])])
       IN IF i = 0 THEN "nil"
          ELSE Indexed(ValidateButton(r.Buttons[i]), i)

\* the arguments of SendQuickReplyButtons
TitleLists ==
  SeqsUpTo(Names, MaxList) \cup {Repeat("n", MaxButtonCount + 1)}
QuickReplyArgs ==
  [phone : Phones, bodyText : Names, buttonTitles : TitleLists]

\* the request SendQuickReplyButtons builds with CreateSimpleButtonMessage
QuickReplyRequest(a) ==
  [WhatsappNumber |-> a.phone, BodyText |-> a.bodyText,
   Buttons |-> [i \in 1..Len(a.buttonTitles) |->
                  [ID |-> "btn_" \o ToString(i), Title |-> a.buttonTitles[i]]]]

CreateContactRequests == [FirstName : Names, Phone : Phones]
ValidContact == [FirstName |-> "n", Phone |-> "15551234567"]

\* (c *CreateContactRequest) Validate; a nil receiver is dereferenced
ValidateContact(c) ==
  IF IsNil(c) THEN "panic"
  ELSE IF c.FirstName = "" THEN "firstName is required"
  ELSE IF c.Phone = "" THEN "phone is required"
  ELSE IF Len(c.Phone) < MinPhoneDigits
    THEN "phone number must be at least 10 digits"
  ELSE "nil"

\* the argument of AddContacts: a slice of pointers
ContactLists ==
  SeqsUpTo(CreateContactRequests \cup {NilReq}, MaxList)
    \cup {Repeat(ValidContact, MaxPerRequest),
          Repeat(ValidContact, MaxPerRequest + 1)}
AddContactsArgs == [contacts : ContactLists]

StartChatbotRequests == [ChatbotID : Names, WhatsappNumber : Phones]

\* (r *StartChatbotRequest) Validate
ValidateStartChatbot(r) ==
  IF r.ChatbotID = "" THEN "chatbotId is required"
  ELSE IF r.WhatsappNumber = "" THEN "whatsappNumber is required"
  ELSE IF Len(r.WhatsappNumber) < MinPhoneDigits
    THEN "whatsappNumber must be at least 10 digits"
  ELSE "nil"

ValidStatuses == {"OPEN", "ASSIGNED", "RESOLVED", "CLOSED", "BOT"}
UpdateChatStatusRequests ==
  [WhatsappNumber : Phones, Status : {"", "OPEN", "BOT", "ARCHIVED"}]

\* (r *UpdateChatStatusRequest) Validate
ValidateUpdateChatStatus(r) ==
  IF r.WhatsappNumber = "" THEN "whatsappNumber is required"
  ELSE IF r.Status = "" THEN "status is required"
  ELSE IF r.Status \notin ValidStatuses THEN "invalid status"
  ELSE IF Len(r.WhatsappNumber) < MinPhoneDigits
    THEN "whatsappNumber must be at least 10 digits"
  ELSE "nil"

ChatbotResponses == [Trigger : Names, Message : Names]
CreateChatbotRequests ==
  [Name : Names, Keywords : SeqsUpTo({"k"}, 1),
   Responses : SeqsUpTo(ChatbotResponses, MaxList)]

ValidateChatbotResponse(x) ==
  IF x.Trigger = "" THEN "trigger is required for response"
  ELSE IF x.Message = "" THEN "message is required for response"
  ELSE "nil"

\* (r *CreateChatbotRequest) Validate
ValidateCreateChatbot(r) ==
  IF r.Name = "" THEN "name is required"
  ELSE IF Len(r.Keywords) = 0 /\ Len(r.Responses) = 0
    THEN "at least one keyword or response is required"
  ELSE LET i == FirstBad([k \in DOMAIN r.Responses |-> ValidateChatbotResponse(r.Responses[k])])
       IN IF i = 0 THEN "nil"
          ELSE Indexed(ValidateChatbotResponse(r.Responses[i]), i)

SupportedMediaTypes == {"image", "video", "audio", "document", "sticker"}
IsValidMediaType(t) == t \in SupportedMediaTypes
\* File: nil, a reader that delivers its bytes, a reader whose Read fails
UploadRequests ==
  [File : {"nil", "reader", "failing reader"}, FileName : Names,
   MediaType : {"", "image", "sticker", "hologram"}]

\* (r *UploadRequest) Validate
ValidateUpload(r) ==
  IF r.File = "nil" THEN "file is required"
  ELSE IF r.FileName = "" THEN "fileName is required"
  ELSE IF r.MediaType = "" THEN "mediaType is required"
  ELSE IF ~IsValidMediaType(r.MediaType) THEN "unsupported media type"
  ELSE "nil"

ValidEvents ==
  {"message_received", "new_contact_message", "session_message_sent",
   "template_message_sent", "message_delivered", "message_read",
   "message_replied", "template_message_failed", "contact_created",
   "contact_updated", "chatbot_started", "chatbot_stopped",
   "chat_status_changed"}
WebhookRegistrations ==
  [URL : Names,
   Events : SeqsUpTo({"message_received", "contact_created", "bogus"},
                     MaxList)]

ValidateEventType(e) ==
  IF e \notin ValidEvents THEN "invalid event type" ELSE "nil"

\* (r *WebhookRegistration) Validate
ValidateWebhookRegistration(r) ==
  IF r.URL = "" THEN "webhook URL is required"
  ELSE IF Len(r.Events) = 0 THEN "at least one event type is required"
  ELSE LET i == FirstBad([k \in DOMAIN r.Events |-> ValidateEventType(r.Events[k])])
       IN IF i = 0 THEN "nil" ELSE ValidateEventType(r.Events[i])

\* ------------------------------------------------- webhook signatures
\* Payloads, secrets and digests are byte strings; a signature is a string
\* of characters, one byte each.
Bytes == 0..255
HexDigits ==
  <<"0", "1", "2", "3", "4", "5", "6", "7", "8", "9", "a", "b", "c", "d",
    "e", "f">>

\* length of the digest the model's keyed hash produces
DigestLen == 2

\* sum of q[j] * (j + k) over the positions of q
RECURSIVE Weighted(_, _)
Weighted(q, k) ==
  IF q = <<>> THEN 0
  ELSE (Head(q) + 1) * (Len(q) + k) + 3 * Weighted(Tail(q), k)

\* mac := hmac.New(sha256.New, key); mac.Write(payload); mac.Sum(nil).
\* SHA-256 is represented by a deterministic keyed function into
\* DigestLen bytes.
HmacSum(key, payload) ==
  [i \in 1..DigestLen |->
     (Weighted(payload, i) + 7 * Weighted(key, i + 1) + 11 * i) % 256]

\* hex.EncodeToString: two lower-case digits per byte, high nibble first
EncodeToString(bs) ==
  [i \in 1..(2 * Len(bs)) |->
     IF i % 2 = 1 THEN HexDigits[(bs[(i + 1) \div 2] \div 16) + 1]
     ELSE HexDigits[(bs[i \div 2] % 16) + 1]]

\* faulty variant of the comparison: only the first digit is compared
HmacEqual_FirstDigit(x, y) ==
  /\ Len(x) = Len(y)
  /\ Len(x) > 0 => x[1] = y[1]

\* hmac.Equal: same length and the same byte at every position
HmacEqual(x, y) ==
  /\ Len(x) = Len(y)
  /\ \A i \in 1..Len(x) : x[i] = y[i]

\* faulty variant: an empty secret is a key like any other
ValidateSignature_NoOptOut(payload, signature, secret) ==
  LET expectedSignature == EncodeToString(HmacSum(secret, payload))
  IN HmacEqual(signature, expectedSignature)

ValidateSignature(payload, signature, secret) ==
  IF secret = <<>> THEN TRUE
  ELSE LET expectedSignature == EncodeToString(HmacSum(secret, payload))
       IN HmacEqual(signature, expectedSignature)

NotChecked == [checked |-> FALSE, valid |-> FALSE]

\* no signature check has been made
SigInit ==
  /\ vPayload = <<>>
  /\ vSignature = <<>>
  /\ vSecret = <<>>
  /\ vResult = NotChecked

\* ------------------------------------------------- webhook events
\* Request bodies posted to /webhook.  bytes is the body as the HMAC sees
\* it; the other fields describe the JSON document it holds:
\*   doc   "invalid" (not JSON), "null", "array" or "object"
\*   id, type   the members "id" and "type" ("" when absent); idIsString is
\*              false when "id" holds a number
\*   data  "absent", "null", "object" (members of the right types),
\*         "string" (a JSON string) or "generic" (an array)
Payload(b, doc, id, idIsString, type, data) ==
  [bytes |-> b, doc |-> doc, id |-> id, idIsString |-> idIsString,
   type |-> type, data |-> data]

\* <html>
PayloadNotJSON == Payload(<<1>>, "invalid", "", TRUE, "", "absent")
\* null
PayloadNull == Payload(<<2>>, "null", "", TRUE, "", "absent")
\* {"id":5,"type":"message_received"}
PayloadBadID == Payload(<<3>>, "object", "", FALSE, "message_received", "absent")
\* {"id":"e1","type":"message_received","data":{"messageId":"m1"}}
PayloadMessage ==
  Payload(<<4>>, "object", "e1", TRUE, "message_received", "object")
\* {"id":"e2","type":"message_received","data":"oops"}
PayloadBadData ==
  Payload(<<5>>, "object", "e2", TRUE, "message_received", "string")
\* {"id":"e3","type":"contact_created"}
PayloadNoData == Payload(<<6>>, "object", "e3", TRUE, "contact_created", "absent")
\* {"id":"e4","type":"custom_event","data":[1]}
PayloadCustom == Payload(<<7>>, "object", "e4", TRUE, "custom_event", "generic")

Payloads ==
  {PayloadNotJSON, PayloadNull, PayloadBadID, PayloadMessage, PayloadBadData,
   PayloadNoData, PayloadCustom}

\* the event types parseEventData knows, with the struct it decodes into
DataStructOf(type) ==
  CASE type \in {"message_received", "new_contact_message"} ->
         "MessageReceivedData"
    [] type \in {"session_message_sent", "template_message_sent",
                 "template_message_failed"} -> "MessageSentData"
    [] type \in {"message_delivered", "message_read", "message_replied"} ->
         "MessageStatusData"
    [] type \in {"contact_created", "contact_updated"} -> "ContactEventData"
    [] type \in {"chatbot_started", "chatbot_stopped"} -> "ChatbotEventData"
    [] type = "chat_status_changed" -> "ChatStatusEventData"
    [] OTHER -> "none"

\* a *WebhookEvent; ptr is false for the nil pointer
Event(id, type, data) == [ptr |-> TRUE, ID |-> id, Type |-> type, Data |-> data]
NilEvent == [ptr |-> FALSE, ID |-> "", Type |-> "", Data |-> "nil"]

\* (event, err) as ParseWebhookEvent and HandleWebhook return it
Result(e, err) == [event |-> e, err |-> err]

\* parseEventData: the Data of the event after the type-specific decoding,
\* "error" when that decoding fails
ParseEventData(type, data) ==
  IF data \in {"absent", "null"} THEN "nil"
  ELSE IF DataStructOf(type) = "none" THEN data
  ELSE IF data = "object" THEN DataStructOf(type)
  ELSE "error"

ParseWebhookEvent(p) ==
  IF p.doc \in {"invalid", "array"} \/ ~p.idIsString
    THEN Result(NilEvent, "error parsing webhook event")
  ELSE IF p.doc = "null" THEN Result(Event("", "", "nil"), "nil")
  ELSE IF ParseEventData(p.type, p.data) = "error"
    THEN Result(NilEvent, "error parsing event data")
  ELSE Result(Event(p.id, p.type, ParseEventData(p.type, p.data)), "nil")

\* ------------------------------------------------- events on the wire
\* the event types of the const block
KnownTypes ==
  {"message_received", "new_contact_message", "session_message_sent",
   "template_message_sent", "message_delivered", "message_read",
   "message_replied", "template_message_failed", "contact_created",
   "contact_updated", "chatbot_started", "chatbot_stopped",
   "chat_status_changed"}

\* an int64 value: exp53 * 2^53 + low, with low below 2^31
Int64(exp53, low) == [exp53 |-> exp53, low |-> low]
\* the float64 nearest to an int64 below 2^54, ties to the even mantissa:
\* what json.Unmarshal stores for a number when the target is interface{}
Float64Of(n) ==
  IF n.exp53 = 0 \/ n.low % 2 = 0 THEN n
  ELSE IF (n.low - 1) % 4 = 0 THEN Int64(n.exp53, n.low - 1)
  ELSE Int64(n.exp53, n.low + 1)

\* Media *WebhookMediaInfo and Tags []string of a payload struct
NilMedia == [nil |-> TRUE, Size |-> Int64(0, 0)]
Media(size) == [nil |-> FALSE, Size |-> size]
NilTags == [nil |-> TRUE, elems |-> <<>>]
Tags(elems) == [nil |-> FALSE, elems |-> elems]
\* the payload structs that have these fields
HasMedia(struct) == struct = "MessageReceivedData"
HasTags(struct) == struct \in {"ContactEventData", "ChatStatusEventData"}

\* a payload struct value: its type, its first string field (messageId,
\* contactId, chatbotId or whatsappNumber), Media and Tags where the type
\* has them
DataValue(struct, key, media, tags) ==
  [struct |-> struct, key |-> key, media |-> media, tags |-> tags]
NoValue == DataValue("nil", "", NilMedia, NilTags)

\* a member of a JSON object that a field tagged omitempty may leave out
Member1(present, value) == [present |-> present, value |-> value]
\* json.Marshal of a payload struct: "media" is left out for a nil
\* pointer, "tags" for a nil or empty slice
MarshalData(d) ==
  [key |-> d.key,
   media |-> Member1(~d.media.nil, d.media.Size),
   tags |-> Member1(Len(d.tags.elems) > 0, d.tags.elems)]

\* json.Unmarshal of the "data" member into interface{}: a
\* map[string]interface{} whose numbers are float64
GenericOf(j) ==
  [key |-> j.key,
   media |-> Member1(j.media.present, Float64Of(j.media.value)),
   tags |-> j.tags]

\* json.Marshal of that map and json.Unmarshal of the bytes into the struct:
\* members the struct has no field for are dropped, absent members leave
\* the zero value
DecodeStruct(struct, g) ==
  DataValue(struct, g.key,
            IF HasMedia(struct) /\ g.media.present
              THEN Media(g.media.value) ELSE NilMedia,
            IF HasTags(struct) /\ g.tags.present
              THEN Tags(g.tags.value) ELSE NilTags)

\* a payload as ParseWebhookEvent sees it: the members of Payload, the
\* envelope's other members and the members of the "data" object
Wire(doc, id, idIsString, type, timestamp, source, version, data, value) ==
  [doc |-> doc, id |-> id, idIsString |-> idIsString, type |-> type,
   timestamp |-> timestamp, source |-> source, version |-> version,
   data |-> data, value |-> value]

\* a WebhookEvent value with a payload struct in Data
FullEvent(id, type, timestamp, source, version, data) ==
  [ID |-> id, Type |-> type, Timestamp |-> timestamp, Source |-> source,
   Version |-> version, Data |-> data]

\* json.Marshal(event): source and version are omitempty
Marshal(e) ==
  Wire("object", e.ID, TRUE, e.Type, e.Timestamp,
       Member1(e.Source # "", e.Source), Member1(e.Version # "", e.Version),
       "object", MarshalData(e.Data))

\* an omitempty string member decoded: "" when the member is absent
StringOf(m) == IF m.present THEN m.value ELSE ""

\* ParseWebhookEvent with every field of the event it returns: Data and
\* the error as ParseWebhookEvent gives them, and in full the fields that
\* json.Unmarshal and parseEventData fill
ParseFull(w) ==
  LET r == ParseWebhookEvent(w)
      filled == r.err = "nil" /\ w.doc = "object"
      struct == r.event.Data
  IN [event |-> r.event,
      err |-> r.err,
      full |->
        IF ~filled
          THEN FullEvent(r.event.ID, r.event.Type, "", "", "", NoValue)
        ELSE FullEvent(
               w.id, w.type, w.timestamp, StringOf(w.source),
               StringOf(w.version),
               IF struct = "nil" THEN NoValue
               ELSE IF struct = DataStructOf(w.type)
                 THEN DecodeStruct(struct, GenericOf(w.value))
               ELSE DecodeStruct("generic", GenericOf(w.value)))]

\* nothing was encoded, received or parsed yet
NoSource == FullEvent("", "", "", "", "", NoValue)
NoWire ==
  Wire("none", "", TRUE, "", "", Member1(FALSE, ""), Member1(FALSE, ""),
       "absent", MarshalData(NoValue))
NotParsed ==
  [event |-> NilEvent, err |-> "not parsed", full |-> NoSource]
ParseInit ==
  /\ pSrc = NoSource
  /\ pWire = NoWire
  /\ pOut = NotParsed

\* ------------------------------------------------- webhook server state
\* keys of the handler registry that occur
HandlerKeys == {"message_received", "contact_created", "custom_event", ""}
\* a WebhookHandler: the nil function, one that returns nil, one that
\* returns an error; "absent" marks a key the map does not hold
HandlerValues == {"nilfunc", "succeeds", "fails"}
NoHandlers == [t \in HandlerKeys |-> "absent"]

Threads == 1..MaxThreads
\* a thread that is in no service call; ret is what its last call returned
Idle(r) == [pc |-> "idle", op |-> "none", port |-> 0,
            hs |-> [nil |-> TRUE, map |-> NoHandlers], ret |-> r]

NoRequest ==
  [pc |-> "none", method |-> "", payload |-> PayloadNull, signature |-> <<>>,
   secretRead |-> FALSE, secret |-> <<>>, handler |-> "absent",
   hw |-> Result(NilEvent, "nil"), status |-> 0,
   envelope |-> [status |-> "", eventId |-> "", eventType |-> ""]]

\* NewService: an empty registry, not running
WsInit ==
  /\ IsRunning = FALSE
  /\ Port = 0
  /\ Secret = <<>>
  /\ Handlers = NoHandlers
  /\ mutex = 0
  /\ thr = [t \in Threads |-> Idle("none")]
  /\ servers = <<>>
  /\ pending = 0
  /\ httpReq = NoRequest
  /\ invoked = <<>>

\* errors the facades return
\*   kind "nil"     no error
\*   kind "errorf"  fmt.Errorf(Message) or fmt.Errorf(Message + ": %w", ...)
\*                  wrapping a validation message (Wraps) or the error
\*                  DoRequest returned (Inner)
\*   kind "panic"   the operation did not return: nil pointer dereference
FacadeErr(k, m, w, i) == [kind |-> k, Message |-> m, Wraps |-> w, Inner |-> i]
NoFacadeErr == FacadeErr("nil", "", "", NoError)
Plain(m) == FacadeErr("errorf", m, "", NoError)
ValidationError(prefix, w) == FacadeErr("errorf", prefix, w, NoError)
Wrapped(m, e) == FacadeErr("errorf", m, "", e)
Panic == FacadeErr("panic", "", "", NoError)

\* the facades before any operation was called
FacadeInit ==
  /\ facPc = "idle"
  /\ facOp = "none"
  /\ facReq = NilReq
  /\ facErr = NoFacadeErr
  /\ facBase = 0

\* ------------------------------------------------- the configuration
\* a time.Duration: sec seconds and nsec nanoseconds
NanosPerSecond == 1000000000
\* time.Duration(n), the conversion an untyped integer constant gets
Duration(n) == [sec |-> n \div NanosPerSecond, nsec |-> n % NanosPerSecond]
\* n * time.Second
Seconds(n) == [sec |-> n, nsec |-> 0]

\* an endpoint string: host, and the number of "/" it ends in
Endpoint(host, slashes) == [host |-> host, slashes |-> slashes]
\* strings.TrimSuffix(endpoint, "/"): one "/" is cut off the end when the
\* string ends in one
TrimSuffix(e) ==
  IF e.slashes > 0 THEN [e EXCEPT !.slashes = e.slashes - 1] ELSE e

DefaultTimeoutSeconds == 30
DefaultRetryCount == 3
DefaultRequestsPerSecond == 10
DefaultBurstSize == 20
RateLimitConfig(requestsPerSecond, burst) ==
  [RequestsPerSecond |-> requestsPerSecond, BurstSize |-> burst]
DefaultConfig ==
  [APIEndpoint |-> Endpoint("", 0),
   Token |-> "",
   Timeout |-> Seconds(DefaultTimeoutSeconds),
   RetryCount |-> DefaultRetryCount,
   RateLimit |-> RateLimitConfig(DefaultRequestsPerSecond, DefaultBurstSize),
   Debug |-> FALSE]

\* a ClientOption: which With function made it, and its arguments
Option(name, timeout, n, m, debug) ==
  [name |-> name, timeout |-> timeout, n |-> n, m |-> m, debug |-> debug]
WithTimeout(timeout) == Option("WithTimeout", timeout, 0, 0, FALSE)
WithRetryCount(count) == Option("WithRetryCount", Duration(0), count, 0, FALSE)
WithRateLimit(requestsPerSecond, burst) ==
  Option("WithRateLimit", Duration(0), requestsPerSecond, burst, FALSE)
WithDebug(debug) == Option("WithDebug", Duration(0), 0, 0, debug)

\* option(config)
Apply(c, o) ==
  CASE o.name = "WithTimeout" -> [c EXCEPT !.Timeout = o.timeout]
    [] o.name = "WithRetryCount" -> [c EXCEPT !.RetryCount = o.n]
    [] o.name = "WithRateLimit" ->
         [c EXCEPT !.RateLimit = RateLimitConfig(o.n, o.m)]
    [] o.name = "WithDebug" -> [c EXCEPT !.Debug = o.debug]

\* for _, option := range options { option(config) }
RECURSIVE ApplyAll(_, _)
ApplyAll(c, os) ==
  IF os = <<>> THEN c ELSE ApplyAll(Apply(c, Head(os)), Tail(os))

\* the configuration NewClient(apiEndpoint, token, options...) builds
NewConfig(apiEndpoint, token, options) ==
  ApplyAll([DefaultConfig EXCEPT !.APIEndpoint = TrimSuffix(apiEndpoint),
                                 !.Token = token],
           options)

\* what a read of a string sees that runs while the string is stored: the
\* pointer of one value with the length of the other
TornToken == "torn"
TornEndpoint == Endpoint("torn", 0)

\* the setter thread is in no call
WrIdle == [pc |-> "idle", field |-> "none", token |-> "",
           endpoint |-> Endpoint("", 0)]
\* the request thread is in no call; after: the RotateToken calls that had
\* succeeded when its DoRequest call started
RdIdle == [pc |-> "idle", url |-> Endpoint("", 0), auth |-> "",
           unsync |-> {}, after |-> 0]

\* a client built without options, with nobody using it
ConfInit ==
  /\ opts = <<>>
  /\ clientConfig = NewConfig(Endpoint("a", 0), "t0", <<>>)
  /\ built = TRUE
  /\ setter = WrIdle
  /\ getter = RdIdle

\* ------------------------------------------------- the token bucket
\* one token: the bucket is counted in thousandths, so that r tokens a
\* second are r thousandths a millisecond
Token1 == Second
Min(a, b) == IF a < b THEN a ELSE b
\* the least k with k * d >= n, for n >= 0
CeilDiv(n, d) == (n + d - 1) \div d

\* rate.NewLimiter(rate.Limit(r), b): the bucket starts full
NewLimiter(b) == [tokens |-> b * Token1, last |-> 0]

\* the bucket's tokens at time t: r per second since last, at most b
Advance(lim, r, b, t) == Min(b * Token1, lim.tokens + (t - lim.last) * r)

\* faulty variant: a reservation never leaves the bucket in debt
Reserve_ForgetsDebt(lim, r, b, t) ==
  LET left == Advance(lim, r, b, t) - Token1
  IN [lim |-> [tokens |-> IF left < 0 THEN 0 ELSE left, last |-> t],
      readyAt |-> IF left < 0 THEN t + CeilDiv(0 - left, r) ELSE t]

\* the reservation of one token that Wait makes at time t: the bucket
\* after it, and the time at which Wait returns
Reserve(lim, r, b, t) ==
  LET left == Advance(lim, r, b, t) - Token1
  IN [lim |-> [tokens |-> left, last |-> t],
      readyAt |-> IF left < 0 THEN t + CeilDiv(0 - left, r) ELSE t]

NoRateCall == [pc |-> "idle", readyAt |-> 0, failed |-> 0]
RateInit ==
  /\ clock = 0
  /\ limiter = NewLimiter(DefaultBurstSize)
  /\ sends = <<>>
  /\ rateCall = NoRateCall

\* no /health request has arrived; reads: the reads of the server's
\* state the request made, in order
NoHealth == [pc |-> "none", status |-> 0, port |-> 0, running |-> FALSE,
             handlers |-> 0, reads |-> <<>>]
HealthInit == health = NoHealth

\* the connections the server serves at the same time
Conns == 1..MaxRequests
\* no request has arrived on any of them
ReqInit ==
  /\ reqs = [i \in Conns |-> NoRequest]
  /\ ran = [i \in Conns |-> <<>>]

\* GetAllContacts has not been called; requested: the pages asked for, in
\* order; fetched: the contacts of each answered page
NoPager == [pc |-> "idle", page |-> 0, allContacts |-> <<>>,
            requested |-> <<>>, fetched |-> <<>>, contacts |-> <<>>,
            err |-> "nil"]
PageInit ==
  /\ totalPages = 0
  /\ pager = NoPager

\* RotateToken has not been called; sent: the token its request carried;
\* count: the calls made; rotated: the token of each response
\* that made a call succeed, in order
NoRotation == [pc |-> "idle", sent |-> "", count |-> 0, failed |-> 0,
               rotated |-> <<>>]
RotInit == rotation = NoRotation

ExtInit ==
  /\ ParseInit /\ ConfInit /\ RateInit /\ HealthInit /\ ReqInit /\ PageInit
  /\ RotInit

SvcInit == FacadeInit /\ SigInit /\ WsInit /\ ExtInit


\* ------------------------------------------------- pure parts of DoRequest
\* fmt.Sprintf("%s %s", method, endpoint)
Operation(m, e) == m \o " " \o e

\* the for-loop condition: attempt <= c.config.RetryCount
LoopCond(a, rc) == a <= rc

\* attempt == c.config.RetryCount
IsLastAttempt(a, rc) == a = rc

\* faulty variants of the break test: one that leaves the loop only on a
\* client error, one that forgets 429
ShouldBreak_OnlyClientErrors(status) == status >= 400 /\ status < 500 /\ status # 429
ShouldBreak_Forgets429(status) == status < 500

\* resp.StatusCode < 500 && resp.StatusCode != 429
ShouldBreak(status) == status < 500 /\ status # 429

\* faulty variant of the backoff: a fixed one-second delay
BackoffDuration_Fixed(a) == Second

\* time.Duration(attempt) * time.Second
BackoffDuration(a) == a * Second

\* the string member k of a JSON object, "" when it has none
Member(b, k) ==
  IF \E p \in b.obj : p[1] = k
    THEN (CHOOSE p \in b.obj : p[1] = k)[2]
    ELSE ""

\* json.Unmarshal(respBody, &apiError): fails on bytes that are not JSON,
\* leaves a field "" when the object has no such member
UnmarshalAPIError(b) ==
  [ok |-> b.json,
   Error |-> IF b.json THEN Member(b, "error") ELSE "",
   Message |-> IF b.json THEN Member(b, "message") ELSE ""]

\* the status >= 400 branch
APIErrorFrom(status, respBody) ==
  LET apiError == UnmarshalAPIError(respBody)
  IN IF apiError.ok /\ apiError.Error # ""
       THEN NewWATIError(status, apiError.Error)
     ELSE IF apiError.ok /\ apiError.Message # ""
       THEN NewWATIError(status, apiError.Message)
     ELSE NewWATIError(status, respBody.raw)

\* io.ReadAll(resp.Body): a body closed before the read that still had
\* bytes to deliver fails with "read on closed response body"; otherwise
\* the read fails when the transport fails under it
ReadAll(r, closed, ioFails) ==
  [err |-> IF closed /\ r.body.raw # "" THEN "closed"
           ELSE IF ioFails THEN "io"
           ELSE "nil",
   bytes |-> r.body]

\* faulty variant of the success branch: the decoding error is dropped
DecodeResult_DropsError(respBody, resultArg, target) ==
  IF resultArg # "nil" /\ respBody.json
    THEN [ret |-> NoError, out |-> [written |-> TRUE, value |-> respBody]]
    ELSE [ret |-> NoError, out |-> target]

\* the success branch: json.Unmarshal(respBody, result) when result != nil.
\* The value is the returned error and the new content of *result.
DecodeResult(respBody, resultArg, target) ==
  IF resultArg # "nil"
    THEN IF respBody.json
           THEN [ret |-> NoError, out |-> [written |-> TRUE, value |-> respBody]]
           ELSE [ret |-> Errorf("error unmarshaling response", "json"),
                 out |-> target]
    ELSE [ret |-> NoError, out |-> target]

\* everything after the loop for a non-nil resp: read, classify, decode
Finish(r, closed, ioFails, resultArg, target) ==
  LET rd == ReadAll(r, closed, ioFails)
  IN IF rd.err # "nil"
       THEN [ret |-> Errorf("error reading response body", rd.err),
             out |-> target]
     ELSE IF r.status >= 400
       THEN [ret |-> APIErrorFrom(r.status, rd.bytes), out |-> target]
     ELSE DecodeResult(rd.bytes, resultArg, target)

\* the code after the loop
AfterLoop(r, closed, le, ioFails, op, resultArg, target) ==
  IF ~r.present
    THEN [ret |-> NetworkError(op, le), out |-> target]
    ELSE Finish(r, closed, ioFails, resultArg, target)


\* ---------------------------------------------------------------- actions
\* how a c.httpClient.Do call can end
TransportFailed == [err |-> "transport", status |-> 0]
CtxFailed == [err |-> "ctx", status |-> 0]
Answered(s) == [err |-> "nil", status |-> s]
Failed(o) == o.err # "nil"

\* what the request has to send as its body when Do is called
BodyToSend == IF body = "nil" THEN "none" ELSE IF bodyLeft THEN "full" ELSE "empty"

\* return e from DoRequest, with *result holding o
Returns(e, o) ==
  /\ pc' = "done"
  /\ ret' = e
  /\ out' = o
  /\ UNCHANGED <<attempt, waiting, attempts, sentBodies>>

\* resp, lastErr = c.httpClient.Do(req), as attempt number a
CallDo(a) ==
  /\ pc' = "inflight"
  /\ attempt' = a
  /\ attempts' = attempts + 1
  /\ sentBodies' = Append(sentBodies, BodyToSend)
  /\ waiting' = 0
  /\ UNCHANGED <<ret, out>>

\* the loop from its condition on, with attempt = a, up to the next place
\* the call blocks or returns; r, closed and le are resp and lastErr now
LoopTop(a, r, closed, le, ioFails) ==
  IF ~LoopCond(a, retryCount)
    THEN LET f == AfterLoop(r, closed, le, ioFails,
                            Operation(method, endpoint), result, out)
         IN Returns(f.ret, f.out)
  ELSE IF a > 0
    THEN IF cancelled
           THEN Returns(CtxErr, out)
           ELSE /\ pc' = "backoff"
                /\ attempt' = a
                /\ waiting' = BackoffDuration(a)
                /\ UNCHANGED <<ret, out, attempts, sentBodies>>
  ELSE CallDo(a)

\* DoRequest(ctx, m, e, b, r) is entered
EnterDoRequest(m, e, b, r) ==
  /\ pc = "idle"
  /\ calls < MaxCalls
  /\ calls' = calls + 1
  /\ pc' = "ratewait"
  /\ cancelled' = FALSE
  /\ method' = m /\ endpoint' = e /\ body' = b /\ result' = r
  /\ bodyLeft' = (b = "value")
  /\ UNCHANGED <<cfgVars, tokens, out, attempt, resp, respClosed, lastErr, ret,
                 acquired, attempts, outcomes, sentBodies, waits, waiting,
                 errVars>>

\* a caller invokes DoRequest(ctx, m, e, b, r)
StartCall(m, e, b, r) ==
  /\ EnterDoRequest(m, e, b, r)
  /\ UNCHANGED svcVars

\* the caller's cancel function is called or its deadline passes
Cancel ==
  /\ pc \in {"ratewait", "backoff", "inflight"}
  /\ ~cancelled
  /\ cancelled' = TRUE
  /\ UNCHANGED <<cfgVars, tokens, calls, pc, argVars, out, attempt, resp,
                 respClosed, lastErr, ret, bodyLeft, acquired, attempts,
                 outcomes, sentBodies, waits, waiting, errVars, svcVars>>

\* time passes and the bucket gains a token
Refill ==
  /\ tokens < burstSize
  /\ tokens' = tokens + 1
  /\ UNCHANGED <<cfgVars, calls, pc, cancelled, argVars, out, attempt, resp,
                 respClosed, lastErr, ret, bodyLeft, acquired, attempts,
                 outcomes, sentBodies, waits, waiting, errVars, svcVars>>

\* c.rateLimiter.Wait(ctx) returns; on success the request is built and the
\* loop is entered
RateWait ==
  /\ pc = "ratewait"
  /\ cancelled \/ tokens > 0
  /\ IF cancelled
       THEN /\ Returns(Errorf("rate limiter error", "ctx"), out)
            /\ UNCHANGED <<tokens, acquired>>
       ELSE /\ tokens' = tokens - 1
            /\ acquired' = acquired + 1
            /\ IF body = "unmarshalable"
                 THEN Returns(Errorf("error marshaling request body", "marshal"), out)
               ELSE IF method \notin {"GET", "POST"}
                 THEN Returns(Errorf("error creating request", "request"), out)
               ELSE LoopTop(0, resp, respClosed, lastErr, FALSE)
  /\ UNCHANGED <<cfgVars, calls, cancelled, argVars, resp, respClosed, lastErr,
                 bodyLeft, outcomes, waits, errVars, svcVars>>

\* faulty variant of the retry wait: a sleep that ignores the context
Backoff_BlockingSleep ==
  /\ pc = "backoff"
  /\ waits' = Append(waits, waiting)
  /\ CallDo(attempt)
  /\ UNCHANGED <<cfgVars, tokens, calls, cancelled, argVars, resp, respClosed,
                 lastErr, bodyLeft, acquired, outcomes, errVars, svcVars>>

\* the select of the retry wait returns
Backoff ==
  /\ pc = "backoff"
  /\ IF cancelled
       THEN /\ Returns(CtxErr, out)
            /\ UNCHANGED waits
       ELSE /\ waits' = Append(waits, waiting)
            /\ CallDo(attempt)
  /\ UNCHANGED <<cfgVars, tokens, calls, cancelled, argVars, resp, respClosed,
                 lastErr, bodyLeft, acquired, outcomes, errVars, svcVars>>

\* c.httpClient.Do returns with outcome o, and the call runs on to the next
\* place it blocks or returns.  ioFails: reading the response body fails;
\* unread: a failed Do left the request body unread.
DoReturn(o, ioFails, unread) ==
  /\ pc = "inflight"
  /\ cancelled => o = CtxFailed
  /\ o = CtxFailed => cancelled
  /\ outcomes' = Append(outcomes, o)
  /\ bodyLeft' = (bodyLeft /\ Failed(o) /\ unread)
  /\ IF Failed(o)
       THEN /\ resp' = NoResp
            /\ respClosed' = FALSE
            /\ lastErr' = o.err
            /\ IF IsLastAttempt(attempt, retryCount)
                 THEN Returns(NetworkError(Operation(method, endpoint), o.err), out)
                 ELSE LoopTop(attempt + 1, NoResp, FALSE, o.err, ioFails)
       ELSE \E b \in Bodies :
            LET r == Resp(o.status, b)
            IN /\ resp' = r
               /\ lastErr' = "nil"
               /\ IF ShouldBreak(o.status)
                    THEN /\ respClosed' = FALSE
                         /\ LET f == Finish(r, FALSE, ioFails, result, out)
                            IN Returns(f.ret, f.out)
                    ELSE /\ respClosed' = TRUE
                         /\ IF IsLastAttempt(attempt, retryCount)
                              THEN LET f == Finish(r, TRUE, ioFails, result, out)
                                   IN Returns(f.ret, f.out)
                              ELSE LoopTop(attempt + 1, r, TRUE, "nil", ioFails)
  /\ UNCHANGED <<cfgVars, tokens, calls, cancelled, argVars, acquired, waits,
                 errVars, svcVars>>

\* DoRequest has returned; the client is ready for the next call
Return ==
  /\ pc = "done"
  /\ pc' = "idle"
  /\ cancelled' = FALSE
  /\ method' = "GET" /\ endpoint' = "/x" /\ body' = "nil" /\ result' = "nil"
  /\ out' = Unwritten
  /\ attempt' = 0
  /\ resp' = NoResp
  /\ respClosed' = FALSE
  /\ lastErr' = "nil"
  /\ ret' = NoError
  /\ bodyLeft' = FALSE
  /\ acquired' = 0
  /\ attempts' = 0
  /\ outcomes' = <<>>
  /\ sentBodies' = <<>>
  /\ waits' = <<>>
  /\ waiting' = 0
  /\ UNCHANGED <<cfgVars, tokens, calls, errVars, svcVars>>

Outcomes == {TransportFailed, CtxFailed} \cup {Answered(s) : s \in Statuses}

\* the per-call state before any call
CallInit ==
  /\ calls = 0
  /\ pc = "idle"
  /\ cancelled = FALSE
  /\ method = "GET" /\ endpoint = "/x" /\ body = "nil" /\ result = "nil"
  /\ out = Unwritten
  /\ attempt = 0
  /\ resp = NoResp
  /\ respClosed = FALSE
  /\ lastErr = "nil"
  /\ ret = NoError
  /\ bodyLeft = FALSE
  /\ acquired = 0
  /\ attempts = 0
  /\ outcomes = <<>>
  /\ sentBodies = <<>>
  /\ waits = <<>>
  /\ waiting = 0

\* NewClient(endpoint, token, WithRetryCount(rc), WithRateLimit(_, bs))
Init ==
  /\ retryCount \in RetryCounts
  /\ burstSize \in BurstSizes
  /\ tokens = burstSize
  /\ CallInit
  /\ code = 0
  /\ werr = NoError
  /\ SvcInit

Next ==
  \/ \E m \in Methods, e \in Endpoints, b \in BodyArgs, r \in ResultArgs :
       StartCall(m, e, b, r)
  \/ Cancel
  \/ Refill
  \/ RateWait
  \/ Backoff
  \/ \E o \in Outcomes, ioFails \in BOOLEAN, unread \in BOOLEAN :
       DoReturn(o, ioFails, unread)
  \/ Return

Spec == Init /\ [][Next]_vars

\* the client NewClient builds when it is given no option: DefaultConfig's
\* retry count and burst
InitDefaults ==
  /\ retryCount = DefaultRetryCount
  /\ burstSize = MaxBurst
  /\ tokens = burstSize
  /\ CallInit
  /\ code = 0
  /\ werr = NoError
  /\ SvcInit

SpecDefaults == InitDefaults /\ [][Next]_vars


\* ------------------------------------------------- the error classifier
\* messages handed to NewWATIError
Messages == {"", "invalid request"}

\* a caller classifies the status code: werr = NewWATIError(code, m)
Classify(m) ==
  /\ werr = NoError
  /\ werr' = NewWATIError(code, m)
  /\ UNCHANGED <<cfgVars, tokens, calls, pc, cancelled, argVars, out, attempt,
                 resp, respClosed, lastErr, ret, bodyLeft, acquired, attempts,
                 outcomes, sentBodies, waits, waiting, code, svcVars>>

InitErrors ==
  /\ retryCount = 0
  /\ burstSize = 1
  /\ tokens = 1
  /\ CallInit
  /\ code \in StatusCodes
  /\ werr = NoError
  /\ SvcInit

NextErrors == \E m \in Messages : Classify(m)

SpecErrors == InitErrors /\ [][NextErrors]_vars

\* the predefined error variables the package exports
PredefinedErrors ==
  {MkErr("wati", 401, "Invalid API token", "authentication", "", "nil"),
   MkErr("wati", 403, "Insufficient permissions", "authorization", "", "nil"),
   MkErr("wati", 404, "Resource not found", "not_found", "", "nil"),
   MkErr("wati", 405,
         "Method not allowed - check if you're using the correct HTTP method (POST vs GET)",
         "method_not_allowed", "", "nil"),
   MkErr("wati", 429, "Rate limit exceeded", "rate_limit", "", "nil"),
   MkErr("wati", 500, "Internal server error", "server_error", "", "nil"),
   MkErr("wati", 400, "Invalid request", "bad_request", "", "nil"),
   MkErr("wati", 400, "Invalid WhatsApp phone number", "validation", "",
         "nil"),
   MkErr("wati", 404, "Template not found", "template_error", "", "nil"),
   MkErr("wati", 404, "Contact not found", "contact_error", "", "nil")}

\* a caller is handed one of the predefined errors, as ValidateToken
\* hands out ErrInvalidToken
ReturnPredefined(e) ==
  /\ werr = NoError
  /\ werr' = e
  /\ UNCHANGED <<cfgVars, tokens, calls, pc, cancelled, argVars, out, attempt,
                 resp, respClosed, lastErr, ret, bodyLeft, acquired, attempts,
                 outcomes, sentBodies, waits, waiting, code, svcVars>>

\* the WATIError values the library creates and exports
NextErrorValues ==
  \/ \E m \in Messages : Classify(m)
  \/ \E e \in PredefinedErrors : ReturnPredefined(e)

SpecErrorValues == InitErrors /\ [][NextErrorValues]_vars


\* ------------------------------------------------------------ the facades
\* What an operation decides before it reaches DoRequest: the error it
\* returns, or NoFacadeErr when it goes on to call DoRequest.

\* if req == nil {...}; if err := req.Validate(); err != nil {...}
Guarded(req, nilMessage, v) ==
  IF IsNil(req) THEN Plain(nilMessage)
  ELSE IF v # "nil" THEN ValidationError("validation error", v)
  ELSE NoFacadeErr

BeforeSendTemplateMessage(req) ==
  Guarded(req, "request is required",
          IF IsNil(req) THEN "nil" ELSE ValidateSendTemplateMessage(req))

BeforeSendTemplateMessages(req) ==
  Guarded(req, "request is required",
          IF IsNil(req) THEN "nil" ELSE ValidateSendTemplateMessages(req))

BeforeSendInteractiveListMessage(req) ==
  Guarded(req, "request is required",
          IF IsNil(req) THEN "nil" ELSE ValidateInteractiveList(req))

BeforeSendInteractiveButtonMessage(req) ==
  Guarded(req, "request is required",
          IF IsNil(req) THEN "nil" ELSE ValidateInteractiveButton(req))

BeforeSendQuickReplyButtons(a) ==
  IF Len(a.buttonTitles) = 0 \/ Len(a.buttonTitles) > MaxButtonCount
    THEN Plain("must provide 1-3 button titles")
  ELSE BeforeSendInteractiveButtonMessage(QuickReplyRequest(a))

BeforeAddContact(contact) ==
  Guarded(contact, "contact data is required",
          IF IsNil(contact) THEN "nil" ELSE ValidateContact(contact))

BeforeAddContacts(a) ==
  LET i == FirstBad([k \in DOMAIN a.contacts |-> ValidateContact(a.contacts[k])])
  IN IF Len(a.contacts) = 0 THEN Plain("at least one contact is required")
     ELSE IF i # 0
       THEN IF ValidateContact(a.contacts[i]) = "panic" THEN Panic
            ELSE ValidationError(Indexed("validation error for contact", i),
                                 ValidateContact(a.contacts[i]))
     ELSE IF Len(a.contacts) > MaxPerRequest
       THEN Plain("maximum 100 contacts allowed per request")
     ELSE NoFacadeErr

BeforeStartChatbot(req) ==
  Guarded(req, "request is required",
          IF IsNil(req) THEN "nil" ELSE ValidateStartChatbot(req))

BeforeUpdateChatStatus(req) ==
  Guarded(req, "request is required",
          IF IsNil(req) THEN "nil" ELSE ValidateUpdateChatStatus(req))

BeforeCreateChatbot(req) ==
  Guarded(req, "request is required",
          IF IsNil(req) THEN "nil" ELSE ValidateCreateChatbot(req))

\* after validation the file is copied into the multipart form
BeforeUploadMediaWithRequest(req) ==
  LET g == Guarded(req, "request is required",
                   IF IsNil(req) THEN "nil" ELSE ValidateUpload(req))
  IN IF g # NoFacadeErr THEN g
     ELSE IF req.File = "failing reader"
       THEN FacadeErr("errorf", "error copying file data", "read", NoError)
     ELSE NoFacadeErr

BeforeRegisterWebhookWithConfig(config) ==
  Guarded(config, "webhook configuration is required",
          IF IsNil(config) THEN "nil" ELSE ValidateWebhookRegistration(config))

FacadeOps ==
  {"SendTemplateMessage", "SendTemplateMessages", "SendInteractiveListMessage",
   "SendInteractiveButtonMessage", "SendQuickReplyButtons", "AddContact",
   "AddContacts", "StartChatbot", "UpdateChatStatus", "CreateChatbot",
   "UploadMediaWithRequest", "RegisterWebhookWithConfig"}

\* the endpoint each operation posts to
FacadeEndpoint(op) ==
  CASE op = "SendTemplateMessage" -> "/api/v1/sendTemplateMessage"
    [] op = "SendTemplateMessages" -> "/api/v1/sendTemplateMessages"
    [] op = "SendInteractiveListMessage" -> "/api/v1/sendInteractiveListMessage"
    [] op = "SendInteractiveButtonMessage" ->
         "/api/v1/sendInteractiveButtonMessage"
    [] op = "SendQuickReplyButtons" -> "/api/v1/sendInteractiveButtonMessage"
    [] op = "AddContact" -> "/api/v1/addContact"
    [] op = "AddContacts" -> "/api/v1/addContacts"
    [] op = "StartChatbot" -> "/api/v1/startChatbot"
    [] op = "UpdateChatStatus" -> "/api/v1/updateChatStatus"
    [] op = "CreateChatbot" -> "/api/v1/chatbots"
    [] op = "UploadMediaWithRequest" -> "/api/v1/uploadMedia"
    [] op = "RegisterWebhookWithConfig" -> "/api/v1/webhooks"

\* the message each operation wraps a DoRequest error in
FacadeErrorPrefix(op) ==
  CASE op = "SendTemplateMessage" -> "error sending template message"
    [] op = "SendTemplateMessages" -> "error sending template messages"
    [] op = "SendInteractiveListMessage" ->
         "error sending interactive list message"
    [] op = "SendInteractiveButtonMessage" ->
         "error sending interactive button message"
    [] op = "SendQuickReplyButtons" ->
         "error sending interactive button message"
    [] op = "AddContact" -> "error adding contact"
    [] op = "AddContacts" -> "error adding contacts"
    [] op = "StartChatbot" -> "error starting chatbot"
    [] op = "UpdateChatStatus" -> "error updating chat status"
    [] op = "CreateChatbot" -> "error creating chatbot"
    [] op = "UploadMediaWithRequest" -> "error uploading media"
    [] op = "RegisterWebhookWithConfig" -> "error registering webhook"

\* faulty variant: the request is sent whatever was decided ahead of it
FacadeCall_SkipsValidation(op, req, before) ==
  /\ facPc = "idle"
  /\ facOp' = op
  /\ facReq' = req
  /\ facBase' = calls
  /\ facPc' = "calling"
  /\ facErr' = NoFacadeErr
  /\ EnterDoRequest("POST", FacadeEndpoint(op), "value", "ptr")
  /\ UNCHANGED facOthers

\* operation op is called with req; before is what it decides ahead of
\* DoRequest
FacadeCall(op, req, before) ==
  /\ facPc = "idle"
  /\ facOp' = op
  /\ facReq' = req
  /\ facBase' = calls
  /\ IF before # NoFacadeErr
       THEN /\ pc = "idle"
            /\ facPc' = "returned"
            /\ facErr' = before
            /\ UNCHANGED <<doVars, errVars>>
       ELSE /\ facPc' = "calling"
            /\ facErr' = NoFacadeErr
            /\ EnterDoRequest("POST", FacadeEndpoint(op), "value", "ptr")
  /\ UNCHANGED facOthers

\* DoRequest has returned to the operation, which returns to its caller
FacadeFinish ==
  /\ facPc = "calling"
  /\ pc = "done"
  /\ facPc' = "returned"
  /\ facErr' = IF ret = NoError THEN NoFacadeErr
               ELSE Wrapped(FacadeErrorPrefix(facOp), ret)
  /\ UNCHANGED <<doVars, errVars, facOp, facReq, facBase, facOthers>>

\* the caller has the result; the service is ready for the next operation
FacadeReset ==
  /\ facPc = "returned"
  /\ pc = "idle"
  /\ facPc' = "idle"
  /\ facOp' = "none"
  /\ facReq' = NilReq
  /\ facErr' = NoFacadeErr
  /\ facBase' = 0
  /\ UNCHANGED <<doVars, errVars, facOthers>>

SendTemplateMessage ==
  /\ facPc = "idle"
  /\ \E req \in SendTemplateMessageRequests \cup {NilReq} :
       FacadeCall("SendTemplateMessage", req, BeforeSendTemplateMessage(req))

SendTemplateMessages ==
  /\ facPc = "idle"
  /\ \E req \in SendTemplateMessagesRequests \cup {NilReq} :
       FacadeCall("SendTemplateMessages", req, BeforeSendTemplateMessages(req))

SendInteractiveListMessage ==
  /\ facPc = "idle"
  /\ \E req \in InteractiveListMessageRequests \cup {NilReq} :
       FacadeCall("SendInteractiveListMessage", req,
                  BeforeSendInteractiveListMessage(req))

SendInteractiveButtonMessage ==
  /\ facPc = "idle"
  /\ \E req \in InteractiveButtonMessageRequests \cup {NilReq} :
       FacadeCall("SendInteractiveButtonMessage", req,
                  BeforeSendInteractiveButtonMessage(req))

SendQuickReplyButtons ==
  /\ facPc = "idle"
  /\ \E a \in QuickReplyArgs :
       FacadeCall("SendQuickReplyButtons", a, BeforeSendQuickReplyButtons(a))

AddContact ==
  /\ facPc = "idle"
  /\ \E contact \in CreateContactRequests \cup {NilReq} :
       FacadeCall("AddContact", contact, BeforeAddContact(contact))

AddContacts ==
  /\ facPc = "idle"
  /\ \E a \in AddContactsArgs :
       FacadeCall("AddContacts", a, BeforeAddContacts(a))

StartChatbot ==
  /\ facPc = "idle"
  /\ \E req \in StartChatbotRequests \cup {NilReq} :
       FacadeCall("StartChatbot", req, BeforeStartChatbot(req))

UpdateChatStatus ==
  /\ facPc = "idle"
  /\ \E req \in UpdateChatStatusRequests \cup {NilReq} :
       FacadeCall("UpdateChatStatus", req, BeforeUpdateChatStatus(req))

CreateChatbot ==
  /\ facPc = "idle"
  /\ \E req \in CreateChatbotRequests \cup {NilReq} :
       FacadeCall("CreateChatbot", req, BeforeCreateChatbot(req))

UploadMediaWithRequest ==
  /\ facPc = "idle"
  /\ \E req \in UploadRequests \cup {NilReq} :
       FacadeCall("UploadMediaWithRequest", req,
                  BeforeUploadMediaWithRequest(req))

RegisterWebhookWithConfig ==
  /\ facPc = "idle"
  /\ \E config \in WebhookRegistrations \cup {NilReq} :
       FacadeCall("RegisterWebhookWithConfig", config,
                  BeforeRegisterWebhookWithConfig(config))

\* DoRequest hands its result back only to the operation that called it
ReturnToFacade ==
  /\ facPc = "returned"
  /\ Return

\* NewClient(endpoint, token, WithRetryCount(1), WithRateLimit(_, 1))
InitFacade ==
  /\ retryCount = 1
  /\ burstSize = 1
  /\ tokens = 1
  /\ CallInit
  /\ code = 0
  /\ werr = NoError
  /\ SvcInit

NextFacade ==
  \/ SendTemplateMessage
  \/ SendTemplateMessages
  \/ SendInteractiveListMessage
  \/ SendInteractiveButtonMessage
  \/ SendQuickReplyButtons
  \/ AddContact
  \/ AddContacts
  \/ StartChatbot
  \/ UpdateChatStatus
  \/ CreateChatbot
  \/ UploadMediaWithRequest
  \/ RegisterWebhookWithConfig
  \/ FacadeFinish
  \/ FacadeReset
  \/ ReturnToFacade
  \/ Cancel
  \/ Refill
  \/ RateWait
  \/ Backoff
  \/ \E o \in Outcomes, ioFails \in BOOLEAN, unread \in BOOLEAN :
       DoReturn(o, ioFails, unread)

SpecFacade == InitFacade /\ [][NextFacade]_vars

\* ------------------------------------------------- the signature check
PayloadBytes == {0, 1, 255}
SecretBytes == {1, 2}
SigPayloads == SeqsUpTo(PayloadBytes, MaxPayloadLen)
SigSecrets == SeqsUpTo(SecretBytes, MaxSecretLen)
\* characters a signature header may carry
SigChars == {HexDigits[i] : i \in 1..16} \cup {"A", "F", "x"}

\* the strings that differ from e in exactly one position
SingleByteMutations(e) ==
  {[e EXCEPT ![i] = c] : i \in 1..Len(e), c \in SigChars} \ {e}

\* signatures presented for payload p under secret k: the right one, its
\* single-byte mutations, and strings of other lengths
SignaturesFor(p, k) ==
  LET e == EncodeToString(HmacSum(k, p))
  IN {e} \cup SingleByteMutations(e)
       \cup {<<>>, SubSeq(e, 1, Len(e) - 1), e \o <<"0">>}

\* a caller asks ValidateSignature(vPayload, vSignature, vSecret)
CheckSignature ==
  /\ ~vResult.checked
  /\ vResult' = [checked |-> TRUE,
                 valid |-> ValidateSignature(vPayload, vSignature, vSecret)]
  /\ UNCHANGED <<doVars, errVars, vPayload, vSignature, vSecret, sigOthers>>

InitSig ==
  /\ retryCount = 0
  /\ burstSize = 1
  /\ tokens = 1
  /\ CallInit
  /\ code = 0
  /\ werr = NoError
  /\ FacadeInit
  /\ WsInit
  /\ ExtInit
  /\ vPayload \in SigPayloads
  /\ vSecret \in SigSecrets
  /\ vSignature \in SignaturesFor(vPayload, vSecret)
  /\ vResult = NotChecked

NextSig == CheckSignature

SpecSig == InitSig /\ [][NextSig]_vars


\* ------------------------------------------------- the webhook server
\* One Service value.  Caller threads call StartWebhookServer and
\* StopWebhookServer, which take s.mutex for writing; the goroutine each
\* successful start spawns calls ListenAndServe on s.server.server; the
\* HTTP server serves a request on /webhook, which takes s.mutex for
\* reading twice.
\* A thread's place in a call:
\*   "startlock" in StartWebhookServer, at s.mutex.Lock()     (line 612)
\*   "start"     holds the lock, before the IsRunning test    (line 615)
\*   "commit"    past the test, before the assignments        (line 620)
\*   "stoplock"  in StopWebhookServer, at s.mutex.Lock()      (line 653)
\*   "stop"      holds the lock, before the IsRunning test    (line 656)
\*   "shutdown"  inside s.server.server.Shutdown(ctx)          (line 663)
\* The request's place:
\*   "secret"    before the first RLock of HandleWebhook      (line 579)
\*   "lookup"    before the second RLock                      (line 588)
\*   "handler"   inside the handler                           (line 593)
\*   "done"      response written

\* the handlers argument of StartWebhookServer: nil or a map
NilHandlers == [nil |-> TRUE, map |-> NoHandlers]
HandlersArg(m) == [nil |-> FALSE, map |-> m]
\* the calls of StartWebhookServer that callers make: (port, handlers)
StartArgs ==
  {<<8080, NilHandlers>>,
   <<8081, HandlersArg([NoHandlers EXCEPT !["message_received"] = "succeeds"])>>}

\* a request is being served: its connection is not idle
Active ==
  \/ httpReq.pc \in {"secret", "lookup", "handler"}
  \/ health.pc \in {"port", "running", "handlers"}
  \/ \E i \in Conns : reqs[i].pc \in {"secret", "lookup", "call", "handler"}

\* s.server.server listens
Listening ==
  /\ servers # <<>>
  /\ servers[Len(servers)].state = "listening"

\* faulty variant of the lock: a second writer is let in
Lock_NotExclusive(t) == mutex' = t

\* s.mutex.Lock() returns in thread t
Lock(t) ==
  /\ mutex = 0
  /\ mutex' = t

\* thread t returns r from its call and the deferred Unlock runs
ReturnUnlock(t, r) ==
  /\ thr' = [thr EXCEPT ![t].pc = "idle", ![t].ret = r]
  /\ mutex' = 0

\* the threads inside StartWebhookServer
StartsInProgress == {u \in Threads : thr[u].op = "Start" /\ thr[u].pc # "idle"}

\* thread t calls StartWebhookServer(p, hs)
CallStart(t, p, hs) ==
  /\ thr[t].pc = "idle"
  /\ Len(servers) + Cardinality(StartsInProgress) < MaxStarts
  /\ thr' = [thr EXCEPT ![t] = [pc |-> "startlock", op |-> "Start",
                                port |-> p, hs |-> hs, ret |-> "none"]]
  /\ UNCHANGED <<IsRunning, Port, Secret, Handlers, mutex, servers, pending,
                 httpReq, invoked, wsOthers>>

\* s.mutex.Lock() of StartWebhookServer returns
StartLock(t) ==
  /\ thr[t].pc = "startlock"
  /\ Lock(t)
  /\ thr' = [thr EXCEPT ![t].pc = "start"]
  /\ UNCHANGED <<IsRunning, Port, Secret, Handlers, servers, pending, httpReq,
                 invoked, wsOthers>>

\* faulty variant: the port is stored before the IsRunning test
StartCheck_StoresPortFirst(t) ==
  /\ thr[t].pc = "start"
  /\ Port' = thr[t].port
  /\ IF IsRunning
       THEN ReturnUnlock(t, "webhook server is already running")
       ELSE /\ thr' = [thr EXCEPT ![t].pc = "commit"]
            /\ UNCHANGED mutex
  /\ UNCHANGED <<IsRunning, Secret, Handlers, servers, pending, httpReq,
                 invoked, wsOthers>>

\* if s.server.IsRunning { return error }
StartCheck(t) ==
  /\ thr[t].pc = "start"
  /\ IF IsRunning
       THEN ReturnUnlock(t, "webhook server is already running")
       ELSE /\ thr' = [thr EXCEPT ![t].pc = "commit"]
            /\ UNCHANGED mutex
  /\ UNCHANGED <<IsRunning, Port, Secret, Handlers, servers, pending, httpReq,
                 invoked, wsOthers>>

\* faulty variant: the server is created but not marked as running
StartCommit_NoFlag(t) ==
  /\ thr[t].pc = "commit"
  /\ Handlers' = IF thr[t].hs.nil THEN Handlers ELSE thr[t].hs.map
  /\ Port' = thr[t].port
  /\ servers' = Append(servers, [port |-> thr[t].port, state |-> "new"])
  /\ pending' = pending + 1
  /\ ReturnUnlock(t, "nil")
  /\ UNCHANGED <<IsRunning, Secret, httpReq, invoked, wsOthers>>

\* faulty variant: the handlers argument is merged into the registry
StartCommit_MergesHandlers(t) ==
  /\ thr[t].pc = "commit"
  /\ Handlers' = IF thr[t].hs.nil THEN Handlers
                 ELSE [k \in HandlerKeys |->
                         IF thr[t].hs.map[k] # "absent" THEN thr[t].hs.map[k]
                         ELSE Handlers[k]]
  /\ Port' = thr[t].port
  /\ servers' = Append(servers, [port |-> thr[t].port, state |-> "new"])
  /\ pending' = pending + 1
  /\ IsRunning' = TRUE
  /\ ReturnUnlock(t, "nil")
  /\ UNCHANGED <<Secret, httpReq, invoked, wsOthers>>

\* the rest of StartWebhookServer: handlers, port, the http.Server, the
\* goroutine, IsRunning = true
StartCommit(t) ==
  /\ thr[t].pc = "commit"
  /\ Handlers' = IF thr[t].hs.nil THEN Handlers ELSE thr[t].hs.map
  /\ Port' = thr[t].port
  /\ servers' = Append(servers, [port |-> thr[t].port, state |-> "new"])
  /\ pending' = pending + 1
  /\ IsRunning' = TRUE
  /\ ReturnUnlock(t, "nil")
  /\ UNCHANGED <<Secret, httpReq, invoked, wsOthers>>

\* a spawned goroutine runs s.server.server.ListenAndServe().  It returns
\* at once on a server that was shut down (ErrServerClosed) and when the
\* port cannot be bound: portTaken by another process, or held by a
\* listener of this one.  The error is only logged.
Listen(portTaken) ==
  /\ pending > 0
  /\ pending' = pending - 1
  /\ LET i == Len(servers)
         held == \E j \in 1..Len(servers) :
                   /\ servers[j].state = "listening"
                   /\ servers[j].port = servers[i].port
     IN servers' =
          IF servers[i].state = "closed" THEN servers
          ELSE IF held THEN servers
          ELSE [servers EXCEPT ![i].state =
                  IF portTaken THEN "failed" ELSE "listening"]
  /\ UNCHANGED <<IsRunning, Port, Secret, Handlers, mutex, thr, httpReq,
                 invoked, wsOthers>>

\* thread t calls StopWebhookServer
CallStop(t) ==
  /\ thr[t].pc = "idle"
  /\ thr' = [thr EXCEPT ![t] = [pc |-> "stoplock", op |-> "Stop", port |-> 0,
                                hs |-> NilHandlers, ret |-> "none"]]
  /\ UNCHANGED <<IsRunning, Port, Secret, Handlers, mutex, servers, pending,
                 httpReq, invoked, wsOthers>>

\* s.mutex.Lock() of StopWebhookServer returns
StopLock(t) ==
  /\ thr[t].pc = "stoplock"
  /\ Lock(t)
  /\ thr' = [thr EXCEPT ![t].pc = "stop"]
  /\ UNCHANGED <<IsRunning, Port, Secret, Handlers, servers, pending, httpReq,
                 invoked, wsOthers>>

\* if !s.server.IsRunning { return error }; otherwise Shutdown begins and
\* closes the listener
StopCheck(t) ==
  /\ thr[t].pc = "stop"
  /\ IF ~IsRunning
       THEN /\ ReturnUnlock(t, "webhook server is not running")
            /\ UNCHANGED servers
       ELSE /\ thr' = [thr EXCEPT ![t].pc = "shutdown"]
            /\ servers' = [servers EXCEPT ![Len(servers)].state = "closed"]
            /\ UNCHANGED mutex
  /\ UNCHANGED <<IsRunning, Port, Secret, Handlers, pending, httpReq, invoked,
                 wsOthers>>

\* Shutdown returns nil: no connection is active
ShutdownDone(t) ==
  /\ thr[t].pc = "shutdown"
  /\ ~Active
  /\ IsRunning' = FALSE
  /\ ReturnUnlock(t, "nil")
  /\ UNCHANGED <<Port, Secret, Handlers, servers, pending, httpReq, invoked,
                 wsOthers>>

\* the 30 seconds pass while a connection is still active: Shutdown
\* returns the context's error and StopWebhookServer returns it wrapped
ShutdownTimeout(t) ==
  /\ thr[t].pc = "shutdown"
  /\ Active
  /\ ReturnUnlock(t, "error stopping webhook server")
  /\ UNCHANGED <<IsRunning, Port, Secret, Handlers, servers, pending, httpReq,
                 invoked, wsOthers>>

\* GetServerStatus: IsRunning, read under the read lock
GetServerStatus == IsRunning

\* faulty variant: the registry is rebuilt with the one entry
RegisterHandler_DropsOthers(eventType, handler) ==
  /\ mutex = 0
  /\ Handlers' = [NoHandlers EXCEPT ![eventType] = handler]
  /\ UNCHANGED <<IsRunning, Port, Secret, mutex, thr, servers, pending,
                 httpReq, invoked, wsOthers>>

RegisterHandler(eventType, handler) ==
  /\ mutex = 0
  /\ Handlers' = [Handlers EXCEPT ![eventType] = handler]
  /\ UNCHANGED <<IsRunning, Port, Secret, mutex, thr, servers, pending,
                 httpReq, invoked, wsOthers>>

UnregisterHandler(eventType) ==
  /\ mutex = 0
  /\ Handlers' = [Handlers EXCEPT ![eventType] = "absent"]
  /\ UNCHANGED <<IsRunning, Port, Secret, mutex, thr, servers, pending,
                 httpReq, invoked, wsOthers>>

SetSecret(k) ==
  /\ mutex = 0
  /\ Secret' = k
  /\ UNCHANGED <<IsRunning, Port, Handlers, mutex, thr, servers, pending,
                 httpReq, invoked, wsOthers>>

\* the success envelope of handleWebhookRequest, without its timestamp
Envelope(e) == [status |-> "success", eventId |-> e.ID, eventType |-> e.Type]
NoEnvelope == [status |-> "", eventId |-> "", eventType |-> ""]

\* the response is written: HandleWebhook returned hw, the status is st
Respond(rq, hw, st) ==
  [rq EXCEPT !.pc = "done", !.hw = hw, !.status = st,
             !.envelope = IF st = 200 THEN Envelope(hw.event) ELSE NoEnvelope]

\* faulty variant: the signature is validated before the body is decoded
Deliver_SignatureFirst(m, p, xWebhookSignature, xHubSignature256, readFails) ==
  /\ httpReq.pc \in {"none", "done"}
  /\ Listening
  /\ mutex = 0
  /\ invoked' = <<>>
  /\ LET signature == IF xWebhookSignature # <<>> THEN xWebhookSignature
                      ELSE xHubSignature256
         rq == [NoRequest EXCEPT !.method = m, !.payload = p,
                                 !.signature = signature]
         parsed == ParseWebhookEvent(p)
     IN httpReq' =
          IF m # "POST" THEN Respond(rq, NoRequest.hw, 405)
          ELSE IF readFails THEN Respond(rq, NoRequest.hw, 400)
          ELSE IF ~ValidateSignature(p.bytes, signature, Secret)
            THEN Respond([rq EXCEPT !.secretRead = TRUE, !.secret = Secret],
                         Result(NilEvent, "invalid webhook signature"), 400)
          ELSE IF parsed.err # "nil"
            THEN Respond(rq, Result(NilEvent, "error parsing webhook event"),
                         400)
          ELSE [rq EXCEPT !.pc = "secret", !.hw = parsed]
  /\ UNCHANGED <<IsRunning, Port, Secret, Handlers, mutex, thr, servers,
                 pending, wsOthers>>

\* handleWebhookRequest on a request with method m, body p and the two
\* signature headers, up to the first RLock of HandleWebhook; readFails:
\* io.ReadAll of the body fails
Arrived(m, p, xWebhookSignature, xHubSignature256, readFails) ==
  LET signature == IF xWebhookSignature # <<>> THEN xWebhookSignature
                   ELSE xHubSignature256
      rq == [NoRequest EXCEPT !.method = m, !.payload = p,
                              !.signature = signature]
      parsed == ParseWebhookEvent(p)
  IN IF m # "POST" THEN Respond(rq, NoRequest.hw, 405)
     ELSE IF readFails THEN Respond(rq, NoRequest.hw, 400)
     ELSE IF parsed.err # "nil"
       THEN Respond(rq, Result(NilEvent, "error parsing webhook event"), 400)
     ELSE [rq EXCEPT !.pc = "secret", !.hw = parsed]

\* A request with method m, body p and the two signature headers arrives
\* at /webhook; readFails: io.ReadAll of the body fails.
Deliver(m, p, xWebhookSignature, xHubSignature256, readFails) ==
  /\ httpReq.pc \in {"none", "done"}
  /\ Listening
  /\ invoked' = <<>>
  /\ httpReq' = Arrived(m, p, xWebhookSignature, xHubSignature256, readFails)
  /\ UNCHANGED <<IsRunning, Port, Secret, Handlers, mutex, thr, servers,
                 pending, wsOthers>>

\* faulty variant: a bad signature is logged and the request goes on
ReadSecret_IgnoresSignature ==
  /\ httpReq.pc = "secret"
  /\ mutex = 0
  /\ httpReq' = [httpReq EXCEPT !.pc = "lookup", !.secretRead = TRUE,
                                !.secret = Secret]
  /\ UNCHANGED <<IsRunning, Port, Secret, Handlers, mutex, thr, servers,
                 pending, invoked, wsOthers>>

\* the request r once HandleWebhook has read the secret k and validated
\* the signature against it
AfterSecret(r, k) ==
  LET rq == [r EXCEPT !.secretRead = TRUE, !.secret = k]
  IN IF ~ValidateSignature(rq.payload.bytes, rq.signature, rq.secret)
       THEN Respond(rq, Result(NilEvent, "invalid webhook signature"), 400)
     ELSE [rq EXCEPT !.pc = "lookup"]

\* secret := s.server.Secret under the read lock, then ValidateSignature
ReadSecret ==
  /\ httpReq.pc = "secret"
  /\ mutex = 0
  /\ httpReq' = AfterSecret(httpReq, Secret)
  /\ UNCHANGED <<IsRunning, Port, Secret, Handlers, mutex, thr, servers,
                 pending, invoked, wsOthers>>

\* faulty variant: the handler is run twice
Lookup_InvokesTwice ==
  /\ httpReq.pc = "lookup"
  /\ mutex = 0
  /\ LET e == httpReq.hw.event
         handler == Handlers[e.Type]
     IN IF handler \notin {"absent", "nilfunc"}
          THEN /\ httpReq' = [httpReq EXCEPT !.pc = "handler",
                                             !.handler = handler]
               /\ invoked' = invoked \o <<e, e>>
          ELSE /\ httpReq' = Respond([httpReq EXCEPT !.handler = handler],
                                      Result(e, "nil"), 200)
               /\ UNCHANGED invoked
  /\ UNCHANGED <<IsRunning, Port, Secret, Handlers, mutex, thr, servers,
                 pending, wsOthers>>

\* exists && handler != nil
Callable(handler) == handler \notin {"absent", "nilfunc"}

\* the request r once HandleWebhook has looked its handler up: the handler
\* is running, or there is none to run and the response is written
AfterLookup(r, handler) ==
  IF Callable(handler)
    THEN [r EXCEPT !.pc = "handler", !.handler = handler]
  ELSE Respond([r EXCEPT !.handler = handler], Result(r.hw.event, "nil"), 200)

\* handler, exists := s.server.Handlers[event.Type] under the read lock;
\* the handler is called if exists && handler != nil
Lookup ==
  /\ httpReq.pc = "lookup"
  /\ mutex = 0
  /\ LET e == httpReq.hw.event
         handler == Handlers[e.Type]
     IN /\ httpReq' = AfterLookup(httpReq, handler)
        /\ invoked' = IF Callable(handler) THEN Append(invoked, e)
                      ELSE invoked
  /\ UNCHANGED <<IsRunning, Port, Secret, Handlers, mutex, thr, servers,
                 pending, wsOthers>>

\* faulty variant: the handler's error is dropped
HandlerReturn_DropsError ==
  /\ httpReq.pc = "handler"
  /\ httpReq' = Respond(httpReq, Result(httpReq.hw.event, "nil"), 200)
  /\ UNCHANGED <<IsRunning, Port, Secret, Handlers, mutex, thr, servers,
                 pending, invoked, wsOthers>>

\* the request r once its handler has returned and the response is
\* written
AfterHandler(r) ==
  IF r.handler = "fails"
    THEN Respond(r, Result(r.hw.event, "error executing webhook handler"),
                 400)
  ELSE Respond(r, Result(r.hw.event, "nil"), 200)

\* the handler returns; HandleWebhook returns; the response is written
HandlerReturn ==
  /\ httpReq.pc = "handler"
  /\ httpReq' = AfterHandler(httpReq)
  /\ UNCHANGED <<IsRunning, Port, Secret, Handlers, mutex, thr, servers,
                 pending, invoked, wsOthers>>

\* the service inside a client built with the defaults of the other specs
InitWebhook ==
  /\ retryCount = 0
  /\ burstSize = 1
  /\ tokens = 1
  /\ CallInit
  /\ code = 0
  /\ werr = NoError
  /\ SvcInit

\* starting and stopping, by several threads, while requests are served
NextLifecycle ==
  \/ \E t \in Threads, a \in StartArgs : CallStart(t, a[1], a[2])
  \/ \E t \in Threads : StartLock(t)
  \/ \E t \in Threads : StartCheck(t)
  \/ \E t \in Threads : StartCommit(t)
  \/ \E portTaken \in BOOLEAN : Listen(portTaken)
  \/ \E t \in Threads : CallStop(t)
  \/ \E t \in Threads : StopLock(t)
  \/ \E t \in Threads : StopCheck(t)
  \/ \E t \in Threads : ShutdownDone(t)
  \/ \E t \in Threads : ShutdownTimeout(t)
  \/ Deliver("POST", PayloadMessage, <<>>, <<>>, FALSE)
  \/ ReadSecret
  \/ Lookup
  \/ HandlerReturn

SpecLifecycle == InitWebhook /\ [][NextLifecycle]_vars

\* the keys the sender signs with and the service is configured with
SenderKey == <<1>>
OtherKey == <<2>>
WebhookSecrets == {<<>>, SenderKey, OtherKey}
\* hex(HMAC-SHA256 of the body keyed by k)
Sign(p, k) == EncodeToString(HmacSum(k, p.bytes))
\* a signature with its first character replaced
Tampered(sig) == [sig EXCEPT ![1] = "x"]
\* event types handlers are registered for
RegisteredTypes == {"message_received", "contact_created"}
HTTPMethods == {"POST", "GET"}

\* the requests that arrive: (method, body, X-Webhook-Signature,
\* X-Hub-Signature-256, whether reading the body fails).  Every body is
\* posted unsigned, signed in either header, and with a tampered first
\* header before a good second one; one body fails to be read; GET
\* requests come signed and unsigned.
Deliveries ==
  UNION {{<<"POST", p, <<>>, <<>>, FALSE>>,
          <<"POST", p, Sign(p, SenderKey), <<>>, FALSE>>,
          <<"POST", p, <<>>, Sign(p, SenderKey), FALSE>>,
          <<"POST", p, Tampered(Sign(p, SenderKey)), Sign(p, SenderKey),
            FALSE>>} : p \in Payloads}
  \cup {<<"POST", PayloadMessage, Sign(PayloadMessage, SenderKey), <<>>, TRUE>>}
  \cup {<<m, PayloadMessage, sig, <<>>, FALSE>> :
          m \in HTTPMethods \ {"POST"},
          sig \in {<<>>, Sign(PayloadMessage, SenderKey)}}

\* requests of every kind served by one started server, while handlers
\* and the secret are changed
NextWebhook ==
  \/ \E a \in StartArgs : CallStart(1, a[1], a[2])
  \/ StartLock(1)
  \/ StartCheck(1)
  \/ StartCommit(1)
  \/ \E portTaken \in BOOLEAN : Listen(portTaken)
  \/ \E eventType \in RegisteredTypes, handler \in HandlerValues :
       RegisterHandler(eventType, handler)
  \/ \E eventType \in RegisteredTypes : UnregisterHandler(eventType)
  \/ \E k \in WebhookSecrets : SetSecret(k)
  \/ \E d \in Deliveries : Deliver(d[1], d[2], d[3], d[4], d[5])
  \/ ReadSecret
  \/ Lookup
  \/ HandlerReturn

SpecWebhook == InitWebhook /\ [][NextWebhook]_vars


\* ------------------------------------------------- requests served at
\* the same time
\* the requests that arrive: a GET, a body that does not decode, a signed
\* message event and an unsigned contact event
ConcurrentDeliveries ==
  {<<"GET", PayloadMessage, <<>>, <<>>, FALSE>>,
   <<"POST", PayloadBadData, <<>>, <<>>, FALSE>>,
   <<"POST", PayloadMessage, Sign(PayloadMessage, SenderKey), <<>>, FALSE>>,
   <<"POST", PayloadNoData, <<>>, <<>>, FALSE>>}

\* a request arrives on connection i and handleWebhookRequest runs up to
\* the first RLock
ServeArrive(i, m, p, xWebhookSignature, xHubSignature256, readFails) ==
  /\ reqs[i].pc \in {"none", "done"}
  /\ Listening
  /\ reqs' = [reqs EXCEPT ![i] = Arrived(m, p, xWebhookSignature,
                                         xHubSignature256, readFails)]
  /\ ran' = [ran EXCEPT ![i] = <<>>]
  /\ UNCHANGED <<wsVars, reqOthers>>

\* the request on connection i reads the secret under the read lock and
\* validates its signature
ServeSecret(i) ==
  /\ reqs[i].pc = "secret"
  /\ mutex = 0
  /\ reqs' = [reqs EXCEPT ![i] = AfterSecret(reqs[i], Secret)]
  /\ UNCHANGED <<ran, wsVars, reqOthers>>

\* the request on connection i looks its handler up under the read lock
\* and releases the lock; a handler that was found is yet to be called
ServeLookup(i) ==
  /\ reqs[i].pc = "lookup"
  /\ mutex = 0
  /\ LET handler == Handlers[reqs[i].hw.event.Type]
         r == AfterLookup(reqs[i], handler)
     IN reqs' = [reqs EXCEPT ![i] = IF Callable(handler)
                                     THEN [r EXCEPT !.pc = "call"]
                                   ELSE r]
  /\ UNCHANGED <<ran, wsVars, reqOthers>>

\* handler(event): the handler that was found is called, outside the lock
ServeCall(i) ==
  /\ reqs[i].pc = "call"
  /\ reqs' = [reqs EXCEPT ![i].pc = "handler"]
  /\ ran' = [ran EXCEPT ![i] = Append(@, reqs[i].hw.event)]
  /\ UNCHANGED <<wsVars, reqOthers>>

\* faulty variant: a handler's failure is taken for a failure of the server
ServeHandlerReturn_MarksStopped(i) ==
  /\ reqs[i].pc = "handler"
  /\ reqs' = [reqs EXCEPT ![i] = AfterHandler(reqs[i])]
  /\ IsRunning' = (IsRunning /\ reqs[i].handler # "fails")
  /\ UNCHANGED <<ran, Port, Secret, Handlers, mutex, thr, servers, pending,
                 httpReq, invoked, reqOthers>>

\* the handler of the request on connection i returns and the response is
\* written
ServeHandlerReturn(i) ==
  /\ reqs[i].pc = "handler"
  /\ reqs' = [reqs EXCEPT ![i] = AfterHandler(reqs[i])]
  /\ UNCHANGED <<ran, wsVars, reqOthers>>

\* requests served at the same time by one started server, while handlers
\* and the secret are changed
NextRequests ==
  \/ \E a \in {x \in StartArgs : x[2] # NilHandlers} :
       CallStart(1, a[1], a[2])
  \/ StartLock(1)
  \/ StartCheck(1)
  \/ StartCommit(1)
  \/ \E portTaken \in BOOLEAN : Listen(portTaken)
  \/ RegisterHandler("contact_created", "fails")
  \/ UnregisterHandler("contact_created")
  \/ \E k \in {<<>>, SenderKey} : SetSecret(k)
  \/ \E i \in Conns, d \in ConcurrentDeliveries :
       ServeArrive(i, d[1], d[2], d[3], d[4], d[5])
  \/ \E i \in Conns : ServeSecret(i)
  \/ \E i \in Conns : ServeLookup(i)
  \/ \E i \in Conns : ServeCall(i)
  \/ \E i \in Conns : ServeHandlerReturn(i)

SpecRequests == InitWebhook /\ [][NextRequests]_vars

\* ------------------------------------------------- all contacts
\* the contacts of page p when it holds n of them
PageContacts(p, n) == [k \in 1..n |-> <<p, k>>]

\* GetAllContacts(ctx) is called: page := 1
CallGetAllContacts ==
  /\ pager.pc = "idle"
  /\ pager' = [NoPager EXCEPT !.pc = "fetch", !.page = 1]
  /\ UNCHANGED <<totalPages, pageOthers>>

\* faulty variant: the loop goes on until the page is past TotalPages
PageAnswered_StrictCompare(n) ==
  /\ pager.pc = "fetch"
  /\ LET page == pager.page
         contacts == PageContacts(page, n)
         allContacts == pager.allContacts \o contacts
         rq == [pager EXCEPT !.allContacts = allContacts,
                             !.requested = Append(@, page),
                             !.fetched = Append(@, contacts)]
     IN pager' =
          IF page > totalPages \/ Len(contacts) = 0
            THEN [rq EXCEPT !.pc = "done", !.contacts = allContacts]
          ELSE [rq EXCEPT !.page = page + 1]
  /\ UNCHANGED <<totalPages, pageOthers>>

\* GetContactsByPage(ctx, page, pageSize) returns a response with n
\* contacts and the backend's TotalPages; the contacts are appended and the
\* loop ends or goes on to the next page
PageAnswered(n) ==
  /\ pager.pc = "fetch"
  /\ LET page == pager.page
         contacts == PageContacts(page, n)
         allContacts == pager.allContacts \o contacts
         rq == [pager EXCEPT !.allContacts = allContacts,
                             !.requested = Append(@, page),
                             !.fetched = Append(@, contacts)]
     IN pager' =
          IF page >= totalPages \/ Len(contacts) = 0
            THEN [rq EXCEPT !.pc = "done", !.contacts = allContacts]
          ELSE [rq EXCEPT !.page = page + 1]
  /\ UNCHANGED <<totalPages, pageOthers>>

\* GetContactsByPage returns an error: GetAllContacts returns nil and the
\* error, wrapped with the page's number
PageFails ==
  /\ pager.pc = "fetch"
  /\ pager' = [pager EXCEPT !.pc = "done",
                            !.requested = Append(@, pager.page),
                            !.contacts = <<>>,
                            !.err = "error getting contacts page"]
  /\ UNCHANGED <<totalPages, pageOthers>>

\* a backend that reports a fixed TotalPages
InitContacts ==
  /\ retryCount = 0
  /\ burstSize = 1
  /\ tokens = 1
  /\ CallInit
  /\ code = 0
  /\ werr = NoError
  /\ FacadeInit
  /\ SigInit
  /\ WsInit
  /\ ParseInit
  /\ ConfInit
  /\ RateInit
  /\ HealthInit
  /\ ReqInit
  /\ RotInit
  /\ totalPages \in -1..MaxPages
  /\ pager = NoPager

NextContacts ==
  \/ CallGetAllContacts
  \/ \E n \in 0..MaxPageContacts : PageAnswered(n)
  \/ PageFails

\* every page request is answered or fails: DoRequest returns
SpecContacts ==
  InitContacts /\ [][NextContacts]_vars /\ WF_vars(NextContacts)

\* ------------------------------------------------- the health report
\* GetServerPort: Port, read under the read lock
GetServerPort == Port

\* a read of the server's state: the field, whether the reader holds the
\* read lock, and the thread that holds the write lock meanwhile (0: none)
Read(field, locked) == [field |-> field, locked |-> locked, writer |-> mutex]

\* len(s.server.Handlers)
LenHandlers == Cardinality({k \in HandlerKeys : Handlers[k] # "absent"})

\* a request arrives at /health: the status 200 is written first
HealthArrive ==
  /\ health.pc \in {"none", "done"}
  /\ Listening
  /\ health' = [NoHealth EXCEPT !.pc = "port", !.status = 200]
  /\ UNCHANGED <<wsVars, healthOthers>>

\* "port": s.GetServerPort()
HealthPort ==
  /\ health.pc = "port"
  /\ mutex = 0
  /\ health' = [health EXCEPT !.pc = "running", !.port = GetServerPort,
                              !.reads = Append(@, Read("Port", TRUE))]
  /\ UNCHANGED <<wsVars, healthOthers>>

\* "running": s.GetServerStatus()
HealthRunning ==
  /\ health.pc = "running"
  /\ mutex = 0
  /\ health' = [health EXCEPT !.pc = "handlers",
                              !.running = GetServerStatus,
                              !.reads = Append(@, Read("IsRunning", TRUE))]
  /\ UNCHANGED <<wsVars, healthOthers>>

\* "handlers": len(s.server.Handlers), read without the lock; the report
\* is encoded
HealthHandlers ==
  /\ health.pc = "handlers"
  /\ health' = [health EXCEPT !.pc = "done", !.handlers = LenHandlers,
                              !.reads = Append(@, Read("Handlers", FALSE))]
  /\ UNCHANGED <<wsVars, healthOthers>>

\* /health is asked while a thread starts and stops the server and
\* handlers are registered and removed
NextHealth ==
  \/ \E a \in StartArgs : CallStart(1, a[1], a[2])
  \/ StartLock(1)
  \/ StartCheck(1)
  \/ StartCommit(1)
  \/ \E portTaken \in BOOLEAN : Listen(portTaken)
  \/ CallStop(1)
  \/ StopLock(1)
  \/ StopCheck(1)
  \/ ShutdownDone(1)
  \/ ShutdownTimeout(1)
  \/ \E eventType \in RegisteredTypes, handler \in HandlerValues :
       RegisterHandler(eventType, handler)
  \/ \E eventType \in RegisteredTypes : UnregisterHandler(eventType)
  \/ HealthArrive
  \/ HealthPort
  \/ HealthRunning
  \/ HealthHandlers

SpecHealth == InitWebhook /\ [][NextHealth]_vars

\* ------------------------------------------------- building and
\* changing the configuration
\* option lists callers pass: WithTimeout with a bare 45 and with
\* 45 * time.Second, retry counts, a rate limit, debug
Options ==
  {WithTimeout(Duration(45)), WithTimeout(Seconds(45)), WithRetryCount(5),
   WithRetryCount(0), WithRateLimit(2, 1), WithDebug(TRUE)}
OptionLists == SeqsUpTo(Options, MaxOptions)
TokenValues == {"t0", "t1"}
EndpointArgs ==
  {Endpoint("a", 0)} \cup {Endpoint("b", n) : n \in 1..MaxSlashes}

\* NewClient(apiEndpoint, token, opts...)
NewClient(apiEndpoint, token) ==
  /\ ~built
  /\ clientConfig' = NewConfig(apiEndpoint, token, opts)
  /\ built' = TRUE
  /\ UNCHANGED <<opts, setter, getter, confOthers>>

\* SetToken(token) is called: the store to c.config.Token begins
CallSetToken(token) ==
  /\ built
  /\ setter.pc = "idle"
  /\ setter' = [pc |-> "storing", field |-> "Token", token |-> token,
                endpoint |-> clientConfig.APIEndpoint]
  /\ UNCHANGED <<opts, clientConfig, built, getter, confOthers>>

\* SetAPIEndpoint(e) is called: the store to c.config.APIEndpoint begins
CallSetAPIEndpoint(e) ==
  /\ built
  /\ setter.pc = "idle"
  /\ setter' = [pc |-> "storing", field |-> "APIEndpoint",
                token |-> clientConfig.Token, endpoint |-> TrimSuffix(e)]
  /\ UNCHANGED <<opts, clientConfig, built, getter, confOthers>>

\* the store is complete and the setter returns
StoreDone ==
  /\ setter.pc = "storing"
  /\ clientConfig' = [clientConfig EXCEPT !.Token = setter.token,
                              !.APIEndpoint = setter.endpoint]
  /\ setter' = WrIdle
  /\ UNCHANGED <<opts, built, getter, confOthers>>

\* DoRequest has passed the rate limiter
BeginRequest ==
  /\ built
  /\ getter.pc \in {"idle", "done"}
  /\ getter' = [RdIdle EXCEPT !.pc = "url",
                              !.after = Len(rotation.rotated)]
  /\ UNCHANGED <<opts, clientConfig, built, setter, confOthers>>

\* a store to the field is in progress in the other thread
Storing(field) == setter.pc = "storing" /\ setter.field = field

\* fullURL := c.config.APIEndpoint + endpoint.  No lock orders the read
\* with a store in progress: it sees the old value, the new one, or a
\* torn one.
ReadEndpoint ==
  /\ getter.pc = "url"
  /\ \E v \in IF Storing("APIEndpoint")
               THEN {clientConfig.APIEndpoint, setter.endpoint, TornEndpoint}
               ELSE {clientConfig.APIEndpoint} :
       getter' = [getter EXCEPT !.pc = "auth", !.url = v,
                        !.unsync = IF Storing("APIEndpoint")
                                     THEN @ \cup {"APIEndpoint"} ELSE @]
  /\ UNCHANGED <<opts, clientConfig, built, setter, confOthers>>

\* req.Header.Set("Authorization", "Bearer "+c.config.Token), likewise
ReadToken ==
  /\ getter.pc = "auth"
  /\ \E v \in IF Storing("Token")
               THEN {clientConfig.Token, setter.token, TornToken}
               ELSE {clientConfig.Token} :
       getter' = [getter EXCEPT !.pc = "done", !.auth = v,
                        !.unsync = IF Storing("Token")
                                     THEN @ \cup {"Token"} ELSE @]
  /\ UNCHANGED <<opts, clientConfig, built, setter, confOthers>>

\* ------------------------------------------------- rotating the token
\* the token field of the responses to /api/v1/rotateToken: "" when the
\* body carries none
ResponseTokens == {"r1", "r2", ""}

\* RotateToken() is called: its DoRequest sends the request with the
\* configured token
CallRotateToken ==
  /\ built
  /\ rotation.pc = "idle"
  /\ rotation.count < MaxRotations
  /\ rotation' = [rotation EXCEPT !.pc = "request",
                                  !.sent = clientConfig.Token,
                                  !.count = @ + 1]
  /\ UNCHANGED <<confVars, confOthersButRotation>>

\* DoRequest returned nil and decoded the response into result:
\* c.config.Token = result.Token; return &result, nil
RotateAnswered(token) ==
  /\ rotation.pc = "request"
  /\ clientConfig' = [clientConfig EXCEPT !.Token = token]
  /\ rotation' = [rotation EXCEPT !.pc = "idle",
                                  !.rotated = Append(@, token)]
  /\ UNCHANGED <<opts, built, setter, getter, confOthersButRotation>>

\* DoRequest returned an error and the token is forgotten
RotateFails_ClearsToken ==
  /\ rotation.pc = "request"
  /\ clientConfig' = [clientConfig EXCEPT !.Token = ""]
  /\ rotation' = [rotation EXCEPT !.pc = "idle", !.failed = @ + 1]
  /\ UNCHANGED <<opts, built, setter, getter, confOthersButRotation>>

\* DoRequest returned an error: if err != nil { return nil, err }
RotateFails ==
  /\ rotation.pc = "request"
  /\ rotation' = [rotation EXCEPT !.pc = "idle", !.failed = @ + 1]
  /\ UNCHANGED <<confVars, confOthersButRotation>>

\* a client built by NewClient(endpoint, "t0"), with nobody using it
InitRotate ==
  /\ retryCount = 0
  /\ burstSize = 1
  /\ tokens = 1
  /\ CallInit
  /\ code = 0
  /\ werr = NoError
  /\ FacadeInit
  /\ SigInit
  /\ WsInit
  /\ ExtInit

NextRotate ==
  \/ CallRotateToken
  \/ \E token \in ResponseTokens : RotateAnswered(token)
  \/ RotateFails
  \/ BeginRequest
  \/ ReadEndpoint
  \/ ReadToken

SpecRotate == InitRotate /\ [][NextRotate]_vars

\* before NewClient: the caller has chosen the options
InitConfig ==
  /\ retryCount = 0
  /\ burstSize = 1
  /\ tokens = 1
  /\ CallInit
  /\ code = 0
  /\ werr = NoError
  /\ FacadeInit
  /\ SigInit
  /\ WsInit
  /\ ParseInit
  /\ RateInit
  /\ HealthInit
  /\ ReqInit
  /\ PageInit
  /\ RotInit
  /\ opts \in OptionLists
  /\ clientConfig = DefaultConfig
  /\ built = FALSE
  /\ setter = WrIdle
  /\ getter = RdIdle

NextConfig ==
  \/ \E e \in EndpointArgs : NewClient(e, "t0")
  \/ \E token \in TokenValues : CallSetToken(token)
  \/ \E e \in EndpointArgs : CallSetAPIEndpoint(e)
  \/ StoreDone
  \/ BeginRequest
  \/ ReadEndpoint
  \/ ReadToken

SpecConfig == InitConfig /\ [][NextConfig]_vars

\* ------------------------------------------------- paced calls
\* the rate limits clients are built with: (requestsPerSecond, burstSize)
RateLimits == {<<1, 1>>, <<2, 1>>, <<2, 2>>, <<4, 1>>, <<2, 0>>}
RequestsPerSecond == clientConfig.RateLimit.RequestsPerSecond
BurstSize == clientConfig.RateLimit.BurstSize

\* time passes
Tick ==
  /\ clock + TickMs <= MaxClock
  /\ clock' = clock + TickMs
  /\ UNCHANGED <<limiter, sends, rateCall, clientConfig, rateOthers>>

\* the caller's next DoRequest call enters c.rateLimiter.Wait(ctx). A
\* bucket that cannot hold one token refuses, and DoRequest returns the
\* rate limiter's error without sending. A call that need not wait sends
\* its request at once: only sleeping and the backend take time.
CallWait ==
  /\ rateCall.pc = "idle"
  /\ Len(sends) + rateCall.failed < MaxSends
  /\ IF BurstSize < 1
       THEN /\ rateCall' = [rateCall EXCEPT !.failed = @ + 1]
            /\ UNCHANGED <<limiter, sends>>
       ELSE LET rv == Reserve(limiter, RequestsPerSecond, BurstSize, clock)
            IN /\ limiter' = rv.lim
               /\ IF rv.readyAt > clock
                    THEN /\ rateCall' = [rateCall EXCEPT
                                           !.pc = "waiting",
                                           !.readyAt = rv.readyAt]
                         /\ UNCHANGED sends
                    ELSE /\ rateCall' = [rateCall EXCEPT
                                           !.pc = "inflight"]
                         /\ sends' = Append(sends, clock)
  /\ UNCHANGED <<clock, clientConfig, rateOthers>>

\* the sleep inside Wait ends, at its time or later, and the request is
\* sent
WaitDone ==
  /\ rateCall.pc = "waiting"
  /\ clock >= rateCall.readyAt
  /\ sends' = Append(sends, clock)
  /\ rateCall' = [rateCall EXCEPT !.pc = "inflight"]
  /\ UNCHANGED <<clock, limiter, clientConfig, rateOthers>>

\* the backend answers 200 and DoRequest returns nil
Return200 ==
  /\ rateCall.pc = "inflight"
  /\ rateCall' = [rateCall EXCEPT !.pc = "idle"]
  /\ UNCHANGED <<clock, limiter, sends, clientConfig, rateOthers>>

\* NewClient(endpoint, token, WithRateLimit(r, b)) has returned
InitRate ==
  /\ retryCount = 0
  /\ burstSize = 1
  /\ tokens = 1
  /\ CallInit
  /\ code = 0
  /\ werr = NoError
  /\ FacadeInit
  /\ SigInit
  /\ WsInit
  /\ ParseInit
  /\ \E rl \in RateLimits :
       /\ opts = <<WithRateLimit(rl[1], rl[2])>>
       /\ clientConfig = NewConfig(Endpoint("a", 0), "t0", opts)
       /\ limiter = NewLimiter(rl[2])
  /\ built = TRUE
  /\ setter = WrIdle
  /\ getter = RdIdle
  /\ clock = 0
  /\ sends = <<>>
  /\ rateCall = NoRateCall
  /\ HealthInit
  /\ ReqInit
  /\ PageInit
  /\ RotInit

NextRate ==
  \/ Tick
  \/ CallWait
  \/ WaitDone
  \/ Return200

SpecRate == InitRate /\ [][NextRate]_vars

\* ------------------------------------------------- decoding events
\* file sizes: 0, 1 KiB, 2^53 and 2^53 + 1
Sizes == {Int64(0, 0), Int64(0, 1024), Int64(1, 0), Int64(1, 1)}
MediaValues(struct) ==
  IF HasMedia(struct) THEN {NilMedia} \cup {Media(n) : n \in Sizes}
  ELSE {NilMedia}
TagValues(struct) ==
  IF HasTags(struct) THEN {NilTags, Tags(<<>>), Tags(<<"vip">>)}
  ELSE {NilTags}
\* the payload struct values of a type
DataValues(struct) ==
  {DataValue(struct, k, m, g) :
     k \in {"", "k"}, m \in MediaValues(struct), g \in TagValues(struct)}
\* events of the known types, each with the payload struct of its type
SourceEvents ==
  UNION {{FullEvent("e1", t, "2024-01-01T00:00:00Z", src, ver, d) :
            src \in {"", "wati"}, ver \in {"", "1.0"},
            d \in DataValues(DataStructOf(t))} : t \in KnownTypes}

\* what the "data" member of a received payload may be
DataShapes == {"absent", "null", "object", "string", "generic"}
\* payloads as they arrive: not JSON, null, an array, and objects of every
\* known type and of two others with every shape of "data"
ReceivedWires ==
  {Wire(doc, "", TRUE, "", "", Member1(FALSE, ""), Member1(FALSE, ""),
        "absent", MarshalData(NoValue)) : doc \in {"invalid", "null", "array"}}
  \cup
  {Wire("object", "e2", idIsString, t, "2024-01-01T00:00:00Z",
        Member1(TRUE, "wati"), Member1(FALSE, ""), shape,
        MarshalData(DataValue("", "k", NilMedia, NilTags))) :
     idIsString \in BOOLEAN, t \in KnownTypes \cup {"custom_event", ""},
     shape \in DataShapes}

\* json.Marshal(e) of an event built by the sender
Encode(e) ==
  /\ pWire = NoWire
  /\ pSrc' = e
  /\ pWire' = Marshal(e)
  /\ UNCHANGED <<pOut, parseOthers>>

\* a payload arrives from elsewhere
Receive(w) ==
  /\ pWire = NoWire
  /\ pWire' = w
  /\ UNCHANGED <<pSrc, pOut, parseOthers>>

\* ParseWebhookEvent(payload)
Parse ==
  /\ pWire # NoWire
  /\ pOut = NotParsed
  /\ pOut' = ParseFull(pWire)
  /\ UNCHANGED <<pSrc, pWire, parseOthers>>

NextParse ==
  \/ \E e \in SourceEvents : Encode(e)
  \/ \E w \in ReceivedWires : Receive(w)
  \/ Parse

SpecParse == InitWebhook /\ [][NextParse]_vars


\* ------------------------------------------------------------- properties
\* a Do call that ended in a transport error or a 5xx/429 response
RetryableOutcome(o) == Failed(o) \/ o.status = 429 \/ o.status >= 500
\* a Do call that ended in a response with status below 400
SuccessOutcome(o) == ~Failed(o) /\ o.status < 400
\* every Do call before the i-th ended in a transport error or 5xx/429
AllRetryableBefore(i) == \A j \in 1..(i - 1) : RetryableOutcome(outcomes[j])
\* *result holds the decoded body of the last response
DecodedIntoTarget == out = [written |-> TRUE, value |-> resp.body]

\* C1 (as stated): a call makes at most retryCount + 1 attempts; when the
\* first k attempts end in a transport error or a 5xx/429 response and
\* attempt k + 1 is answered with a status below 400, the call has made
\* exactly k + 1 attempts and returns success with the body decoded into the
\* result target (a failure of the transport under the body read set aside).
C1_Original ==
  /\ attempts <= retryCount + 1
  /\ \A i \in 1..Len(outcomes) :
       (SuccessOutcome(outcomes[i]) /\ AllRetryableBefore(i) /\ i - 1 <= retryCount)
         => /\ pc = "done"
            /\ attempts = i
            /\ Len(outcomes) = i
            /\ ret.Err # "io" => (ret = NoError /\ (result # "nil" => DecodedIntoTarget))

\* C1 (amended): as C1, but the call returns success with the body decoded
\* into the result target only when the response body is read in full and,
\* for a non-nil result target, is valid JSON; otherwise it still makes
\* exactly k + 1 attempts and returns a non-API, non-network error.
C1_AttemptsAndSuccess ==
  /\ attempts <= retryCount + 1
  /\ \A i \in 1..Len(outcomes) :
       (SuccessOutcome(outcomes[i]) /\ AllRetryableBefore(i) /\ i - 1 <= retryCount)
         => /\ pc = "done"
            /\ attempts = i
            /\ Len(outcomes) = i
            /\ IF ret.Err \notin {"io", "closed"} /\ (result # "nil" => resp.body.json)
                 THEN ret = NoError /\ (result # "nil" => DecodedIntoTarget)
                 ELSE ret.kind = "errorf"

\* two attempts failed with 500, the third was answered 200 and decoded
C1_Witness ==
  /\ pc = "done"
  /\ retryCount >= 2
  /\ Len(outcomes) = 3
  /\ outcomes[1] = Answered(500) /\ outcomes[2] = Answered(500)
  /\ outcomes[3] = Answered(200)
  /\ attempts = 3
  /\ ret = NoError
  /\ result = "ptr" /\ DecodedIntoTarget

Exhausted ==
  /\ Len(outcomes) >= 1
  /\ Len(outcomes) = retryCount + 1
  /\ \A j \in 1..Len(outcomes) : RetryableOutcome(outcomes[j])

LastOutcome == outcomes[Len(outcomes)]

\* C3: when all retryCount + 1 attempts fail, the last attempt decides: a
\* transport error gives a NetworkError with operation "<method> <path>" and
\* that error as cause; a 5xx/429 response gives the classified API error
\* built from that response's status and body (a failure of the transport
\* under the body read set aside).
C3_ExhaustionResult ==
  (pc = "done" /\ Exhausted /\ ret.Err # "io")
    => IF Failed(LastOutcome)
         THEN ret = NetworkError(Operation(method, endpoint), LastOutcome.err)
         ELSE ret = APIErrorFrom(LastOutcome.status, resp.body)

\* C4: once the context is cancelled while the call waits for a token,
\* waits in a backoff or has an attempt in flight, the call starts no
\* further attempt, completes no further backoff wait, and its next step
\* is to return an error.
C4_CancelStopsCall ==
  [][ (cancelled /\ pc \in {"ratewait", "backoff", "inflight"})
        => /\ attempts' = attempts
           /\ waits' = waits
           /\ pc' # pc => (pc' = "done" /\ ret' # NoError)
    ]_vars

\* the context was cancelled during the second backoff wait and the call
\* returned an error after two attempts
C4_Witness ==
  /\ pc = "done"
  /\ cancelled
  /\ attempts = 2
  /\ Len(outcomes) = 2
  /\ Len(waits) = 1
  /\ waiting = 2 * Second
  /\ ret = CtxErr

\* C5: a call that fails because the context was cancelled returns an
\* error recognisable as a cancellation that is not a NetworkError.
C5_CancellationError ==
  (pc = "done" /\ cancelled /\ ret # NoError)
    => (IsCancellation(ret) /\ ~IsNetworkError(ret))

\* C6: a token is taken before every attempt, so the attempts sent never
\* exceed the tokens acquired.
C6_TokenPerAttempt == attempts <= acquired


PreferredMessage(b) ==
  IF b.json /\ \E p \in b.obj : p[1] = "error" /\ p[2] # ""
    THEN (CHOOSE p \in b.obj : p[1] = "error")[2]
  ELSE IF b.json /\ \E p \in b.obj : p[1] = "message" /\ p[2] # ""
    THEN (CHOOSE p \in b.obj : p[1] = "message")[2]
  ELSE b.raw

\* C8: for a final response with status >= 400 the call returns a classified
\* API error with that status whose message is the body's "error" member,
\* else its "message" member, else the raw body, and *result is not written
\* (a failure of the transport under the body read set aside).
C8_ErrorResponse ==
  (pc = "done" /\ resp.present /\ resp.status >= 400 /\ ret.Err # "io")
    => /\ IsWATIError(ret)
       /\ ret.Code = resp.status
       /\ ret.Message = PreferredMessage(resp.body)
       /\ out = Unwritten

\* C10: for a final response with status below 400 and a non-nil result the
\* body is decoded into the target and nil is returned; a body that does not
\* decode gives an error that is neither an API error nor a NetworkError,
\* leaves the target unwritten, and is followed by no further attempt (a
\* failure of the transport under the body read set aside).
C10_DecodeSuccessOrHardError ==
  \A i \in 1..Len(outcomes) :
    (SuccessOutcome(outcomes[i]) /\ result = "ptr")
      => /\ pc = "done"
         /\ Len(outcomes) = i /\ attempts = i
         /\ resp.status = outcomes[i].status
         /\ ret.Err # "io" =>
              IF resp.body.json
                THEN ret = NoError /\ DecodedIntoTarget
                ELSE /\ ret # NoError
                     /\ ~IsWATIError(ret)
                     /\ ~IsNetworkError(ret)
                     /\ ret.Message = "error unmarshaling response"
                     /\ out = Unwritten

\* a 200 answer whose body is not JSON ended the call with a decoding error
\* while retries were still allowed
C10_Witness ==
  /\ pc = "done"
  /\ result = "ptr"
  /\ Len(outcomes) = 1
  /\ outcomes[1] = Answered(200)
  /\ ~resp.body.json
  /\ retryCount >= 1
  /\ ret = Errorf("error unmarshaling response", "json")


\* the fixed table of the data model: status code to category
CategoryTable ==
  {<<400, "bad_request">>, <<401, "authentication">>, <<403, "authorization">>,
   <<404, "not_found">>, <<405, "method_not_allowed">>, <<429, "rate_limit">>,
   <<500, "server_error">>}

TableCategory(c) ==
  IF \E row \in CategoryTable : row[1] = c
    THEN (CHOOSE row \in CategoryTable : row[1] = c)[2]
  ELSE IF c >= 500 THEN "server_error"
  ELSE "client_error"

\* C9: for every status code c >= 400, NewWATIError(c, m) has the category
\* of the fixed table, and for every c its IsRetryable is true if and only
\* if c = 429 or c >= 500.
C9_ClassificationTable ==
  IsWATIError(werr)
    => /\ werr.Code = code
       /\ code >= 400 => werr.Type = TableCategory(code)
       /\ IsRetryable(werr) <=> (code = 429 \/ code >= 500)

\* status 405 has been classified
C9_Witness ==
  /\ IsWATIError(werr)
  /\ code = 405
  /\ werr.Type = "method_not_allowed"
  /\ ~IsRetryable(werr)

\* the validator an operation runs on a non-nil request
ValidatorOf(op, req) ==
  CASE op = "SendTemplateMessage" -> ValidateSendTemplateMessage(req)
    [] op = "SendTemplateMessages" -> ValidateSendTemplateMessages(req)
    [] op = "SendInteractiveListMessage" -> ValidateInteractiveList(req)
    [] op = "SendInteractiveButtonMessage" -> ValidateInteractiveButton(req)
    [] op = "AddContact" -> ValidateContact(req)
    [] op = "StartChatbot" -> ValidateStartChatbot(req)
    [] op = "UpdateChatStatus" -> ValidateUpdateChatStatus(req)
    [] op = "CreateChatbot" -> ValidateCreateChatbot(req)
    [] op = "UploadMediaWithRequest" -> ValidateUpload(req)
    [] op = "RegisterWebhookWithConfig" -> ValidateWebhookRegistration(req)

\* the input of the operation fails its validation: the request is missing,
\* its validator reports an error, or a count is outside its limits
FailsValidation(op, req) ==
  CASE op = "SendQuickReplyButtons" ->
         \/ Len(req.buttonTitles) \notin 1..MaxButtonCount
         \/ ValidateInteractiveButton(QuickReplyRequest(req)) # "nil"
    [] op = "AddContacts" ->
         \/ Len(req.contacts) = 0
         \/ \E i \in 1..Len(req.contacts) :
              /\ ValidateContact(req.contacts[i]) \notin {"nil", "panic"}
              /\ \A j \in 1..(i - 1) : ValidateContact(req.contacts[j]) = "nil"
         \/ /\ Len(req.contacts) > MaxPerRequest
            /\ \A i \in 1..Len(req.contacts) :
                 ValidateContact(req.contacts[i]) = "nil"
    [] OTHER -> IsNil(req) \/ ValidatorOf(op, req) # "nil"

ExpectedSignature == EncodeToString(HmacSum(vSecret, vPayload))

\* x and y have the same length and differ at exactly one position
DiffersInOneByte(x, y) ==
  /\ Len(x) = Len(y)
  /\ Cardinality({i \in 1..Len(x) : x[i] # y[i]}) = 1

\* C19: for every payload and non-empty secret, ValidateSignature is true
\* for the hex HMAC of the payload under the secret and false for every
\* signature that differs from that hex value in a single byte.
C19_SignatureRoundTrip ==
  (vResult.checked /\ vSecret # <<>>)
    => /\ vSignature = ExpectedSignature => vResult.valid
       /\ DiffersInOneByte(vSignature, ExpectedSignature) => ~vResult.valid

\* a signature whose last digit is in upper case was refused, under a
\* secret and a payload of more than one byte
C19_Witness ==
  /\ vResult.checked
  /\ ~vResult.valid
  /\ Len(vSecret) = MaxSecretLen
  /\ Len(vPayload) = MaxPayloadLen
  /\ DiffersInOneByte(vSignature, ExpectedSignature)
  /\ vSignature[Len(vSignature)] \in {"A", "F"}

\* thread t's call moves on in this step
Moves(t) == thr'[t] # thr[t]
\* thread t's call returns r in this step
ReturnsFrom(t, op, r) ==
  /\ thr[t].op = op
  /\ thr[t].pc # "idle"
  /\ thr'[t] = [thr[t] EXCEPT !.pc = "idle", !.ret = r]

\* C12: StartWebhookServer called while the server is Running returns the
\* "already running" error and StopWebhookServer called while it is Stopped
\* returns the "not running" error; from the moment such a call holds the
\* lock until it has returned, IsRunning, Port and the handler registry
\* stay as they were.
C12_RejectedCallsChangeNothing ==
  [][\A t \in Threads :
       /\ (thr[t].pc = "start" /\ IsRunning)
            => /\ UNCHANGED <<IsRunning, Port, Handlers>>
               /\ Moves(t)
                    => ReturnsFrom(t, "Start",
                                   "webhook server is already running")
       /\ (thr[t].pc = "stop" /\ ~IsRunning)
            => /\ UNCHANGED <<IsRunning, Port, Handlers>>
               /\ Moves(t)
                    => ReturnsFrom(t, "Stop", "webhook server is not running")
       /\ (thr[t].pc \in {"startlock", "stoplock"} /\ Moves(t))
            => UNCHANGED <<IsRunning, Port, Handlers>>]_vars

\* a second start, for another port and with a handler map, was refused
\* while the server runs on port 8080 with an empty registry, and another
\* thread's stop was refused before that
C12_Witness ==
  /\ thr[1].op = "Start"
  /\ thr[1].ret = "webhook server is already running"
  /\ thr[1].port = 8081
  /\ ~thr[1].hs.nil
  /\ thr[2].ret = "webhook server is not running"
  /\ IsRunning
  /\ Port = 8080
  /\ Handlers = NoHandlers

\* C13: the service is Stopped at construction; IsRunning changes only by
\* a successful Start (Stopped to Running) or a successful Stop (Running to
\* Stopped); every successful Start and Stop makes that move; and a Start
\* that finds the service Stopped, after a Stop too, succeeds.
C13_Alternation ==
  /\ ~IsRunning
  /\ [][/\ IsRunning' # IsRunning
             => \E t \in Threads :
                  \/ ~IsRunning /\ ReturnsFrom(t, "Start", "nil")
                  \/ IsRunning /\ ReturnsFrom(t, "Stop", "nil")
        /\ \A t \in Threads :
             /\ ReturnsFrom(t, "Start", "nil") => ~IsRunning /\ IsRunning'
             /\ ReturnsFrom(t, "Stop", "nil") => IsRunning /\ ~IsRunning'
             /\ (thr[t].pc = "start" /\ ~IsRunning /\ Moves(t))
                  => thr'[t].pc = "commit"
             /\ (thr[t].pc = "commit" /\ Moves(t))
                  => ReturnsFrom(t, "Start", "nil")]_vars

\* started, stopped, started again: the second server listens
C13_Witness ==
  /\ Len(servers) = 2
  /\ servers[1].state = "closed"
  /\ servers[2].state = "listening"
  /\ IsRunning
  /\ \E t \in Threads : thr[t].op = "Start" /\ thr[t].ret = "nil"
  /\ \E t \in Threads : thr[t].op = "Stop" /\ thr[t].ret = "nil"

\* C14: every StopWebhookServer call made while the server is Running
\* ends, when Shutdown comes back within its 30-second bound, with the
\* server Stopped: GetServerStatus is false afterwards.
C14_StopEndsStopped ==
  [][\A t \in Threads :
       (thr[t].pc = "shutdown" /\ Moves(t))
         => /\ thr'[t].pc = "idle"
            /\ ~GetServerStatus']_vars

\* the http.Server values that were started and not shut down
LiveServers == {j \in 1..Len(servers) : servers[j].state # "closed"}
\* those that hold a listener
ListeningServers == {j \in 1..Len(servers) : servers[j].state = "listening"}
\* the threads whose Start call is past the IsRunning test or succeeded
\* since the last shutdown
Starters ==
  {t \in Threads :
     /\ thr[t].op = "Start"
     /\ \/ thr[t].pc = "commit"
        \/ thr[t].pc = "idle" /\ thr[t].ret = "nil"}

\* C15: of the StartWebhookServer calls that run concurrently on a Stopped
\* service exactly one succeeds and the others return the already-running
\* error, and the service never has two HTTP listeners: at most one thread
\* is past the IsRunning test, at most one server is started and not shut
\* down, and while no server was ever shut down at most one Start call has
\* succeeded.
C15_OneStartWins ==
  /\ Cardinality(ListeningServers) <= 1
  /\ Cardinality(LiveServers) <= 1
  /\ Cardinality({t \in Threads : thr[t].pc \in {"start", "commit"}}) <= 1
  /\ LiveServers = 1..Len(servers) => Cardinality(Starters) <= 1
  /\ \A t \in Threads :
       (thr[t].op = "Start" /\ thr[t].pc = "idle")
         => thr[t].ret \in {"nil", "webhook server is already running"}
  /\ (/\ \A t \in Threads : thr[t].op = "Start" /\ thr[t].pc = "idle"
      /\ LiveServers = 1..Len(servers))
       => IsRunning /\ Len(servers) = 1

\* two threads called Start for different ports on the Stopped service:
\* thread 2 won, thread 1 was refused, and the one server listens on
\* thread 2's port
C15_Witness ==
  /\ thr[1].op = "Start" /\ thr[1].pc = "idle"
  /\ thr[2].op = "Start" /\ thr[2].pc = "idle"
  /\ thr[1].ret = "webhook server is already running"
  /\ thr[2].ret = "nil"
  /\ thr[1].port = 8080
  /\ thr[2].port = 8081
  /\ Len(servers) = 1
  /\ servers[1] = [port |-> 8081, state |-> "listening"]
  /\ Port = 8081

\* the bodies that decode to an event, and the id and type they carry
DecodablePayloads == {PayloadNull, PayloadMessage, PayloadNoData, PayloadCustom}
Decodes(p) == p \in DecodablePayloads
\* the request was a POST whose body was read and decoded
Decoded == httpReq.method = "POST" /\ httpReq.secretRead
\* the signature of the request validates against the secret that was
\* configured when HandleWebhook read it
SignatureValid ==
  /\ httpReq.secretRead
  /\ ValidateSignature(httpReq.payload.bytes, httpReq.signature,
                       httpReq.secret)
\* the request has been answered with status st and no handler was run
Refused(st) ==
  /\ httpReq.status = st
  /\ httpReq.envelope = NoEnvelope
  /\ invoked = <<>>

\* C16: on /webhook a handler is invoked only for a POST whose body
\* decodes to an event and whose signature validates against the
\* configured secret; a request with another method is answered 405, a
\* request whose body does not decode or whose signature does not validate
\* is answered 400, each without any handler invoked.
C16_HandlerOnlyForValidPost ==
  /\ invoked # <<>>
       => /\ httpReq.method = "POST"
          /\ Decodes(httpReq.payload)
          /\ SignatureValid
  /\ httpReq.pc = "done"
       => /\ httpReq.method # "POST" => Refused(405)
          /\ (httpReq.method = "POST" /\ ~Decodes(httpReq.payload))
               => Refused(400)
          /\ (httpReq.secretRead /\ ~SignatureValid) => Refused(400)

\* a signed POST of a message event, whose handler is registered, was
\* answered 400 because the service is configured with another secret
C16_Witness ==
  /\ httpReq.pc = "done"
  /\ httpReq.method = "POST"
  /\ httpReq.payload = PayloadMessage
  /\ httpReq.signature = Sign(PayloadMessage, SenderKey)
  /\ httpReq.secret = OtherKey
  /\ Handlers["message_received"] = "succeeds"
  /\ httpReq.status = 400
  /\ invoked = <<>>

\* the event a decodable body decodes to
DecodedEvent(p) ==
  IF p = PayloadNull THEN Event("", "", "nil")
  ELSE Event(p.id, p.type,
             IF p = PayloadMessage THEN "MessageReceivedData"
             ELSE IF p = PayloadCustom THEN "generic"
             ELSE "nil")

\* C17: for a POST that decodes and passes signature validation the handler
\* registered for the event's type, if there is one, is invoked exactly
\* once, with the decoded event, before the response is written; when it
\* returns success or no handler is registered the response is 200 with a
\* success envelope carrying the event's id and type.
C17_HandlerOnceThenSuccess ==
  /\ Len(invoked) <= 1
  /\ httpReq.pc = "handler"
       => /\ invoked = <<DecodedEvent(httpReq.payload)>>
          /\ httpReq.status = 0
          /\ httpReq.handler \in {"succeeds", "fails"}
  /\ (httpReq.pc = "done" /\ Decoded /\ SignatureValid)
       => /\ httpReq.handler \in {"succeeds", "fails"}
               => invoked = <<DecodedEvent(httpReq.payload)>>
          /\ httpReq.handler \in {"absent", "nilfunc"} => invoked = <<>>
          /\ httpReq.handler # "fails"
               => /\ httpReq.status = 200
                  /\ httpReq.envelope =
                       [status |-> "success",
                        eventId |-> httpReq.payload.id,
                        eventType |-> httpReq.payload.type]

\* a signed message event went to its handler once and was answered 200
\* with its id and type, under the secret it was signed with
C17_Witness ==
  /\ httpReq.pc = "done"
  /\ httpReq.payload = PayloadMessage
  /\ httpReq.secret = SenderKey
  /\ httpReq.handler = "succeeds"
  /\ invoked = <<Event("e1", "message_received", "MessageReceivedData")>>
  /\ httpReq.status = 200
  /\ httpReq.envelope.eventId = "e1"
  /\ httpReq.envelope.eventType = "message_received"

\* C18: when the invoked handler returns a failure, HandleWebhook returns
\* the decoded event together with an error, and the response is the 400
\* error response, not the success envelope.
C18_HandlerFailure ==
  (httpReq.pc = "done" /\ invoked # <<>> /\ httpReq.handler = "fails")
    => /\ httpReq.hw.event.ptr
       /\ httpReq.hw.event = DecodedEvent(httpReq.payload)
       /\ httpReq.hw.err = "error executing webhook handler"
       /\ httpReq.status = 400
       /\ httpReq.envelope = NoEnvelope

\* the handler of a contact event failed: event returned, 400 answered
C18_Witness ==
  /\ httpReq.pc = "done"
  /\ httpReq.payload = PayloadNoData
  /\ httpReq.handler = "fails"
  /\ invoked = <<Event("e3", "contact_created", "nil")>>
  /\ httpReq.hw = Result(Event("e3", "contact_created", "nil"),
                         "error executing webhook handler")
  /\ httpReq.status = 400

\* C20: with an empty secret ValidateSignature is true for every payload
\* and signature, so a service whose secret is empty when the request is
\* checked accepts every decodable POST, signed or not, and dispatches it
\* to the handler registered for its type.
C20_EmptySecretAcceptsAll ==
  /\ ValidateSignature(httpReq.payload.bytes, httpReq.signature, <<>>)
  /\ (httpReq.secretRead /\ httpReq.secret = <<>>)
       => /\ httpReq.pc \in {"lookup", "handler", "done"}
          /\ httpReq.hw.err # "invalid webhook signature"
          /\ httpReq.pc = "done"
               => /\ httpReq.handler \in {"succeeds", "fails"}
                       => invoked = <<DecodedEvent(httpReq.payload)>>
                  /\ httpReq.handler # "fails" => httpReq.status = 200

\* a message event carrying a tampered signature was dispatched and
\* answered 200 by a service without a secret
C20_Witness ==
  /\ httpReq.pc = "done"
  /\ httpReq.secretRead
  /\ httpReq.secret = <<>>
  /\ httpReq.payload = PayloadMessage
  /\ httpReq.signature = Tampered(Sign(PayloadMessage, SenderKey))
  /\ invoked = <<DecodedEvent(PayloadMessage)>>
  /\ httpReq.status = 200

\* the dispatch table: the payload struct of each known type
DispatchTable ==
  [t \in KnownTypes |->
     CASE t \in {"message_received", "new_contact_message"} ->
            "MessageReceivedData"
       [] t \in {"session_message_sent", "template_message_sent",
                 "template_message_failed"} -> "MessageSentData"
       [] t \in {"message_delivered", "message_read", "message_replied"} ->
            "MessageStatusData"
       [] t \in {"contact_created", "contact_updated"} -> "ContactEventData"
       [] t \in {"chatbot_started", "chatbot_stopped"} -> "ChatbotEventData"
       [] t = "chat_status_changed" -> "ChatStatusEventData"]
PayloadStructs == {DispatchTable[t] : t \in KnownTypes}
\* ParseWebhookEvent returned an event decoded from a JSON object
ParsedObject ==
  /\ pOut # NotParsed
  /\ pOut.err = "nil"
  /\ pWire.doc = "object"

\* C21: whenever ParseWebhookEvent succeeds on an event of a known type,
\* Data holds the payload struct the dispatch table gives for that type;
\* for a type outside the table whose envelope decodes no error is
\* returned and Data is not a payload struct.
C21_DataShapeByType ==
  /\ (ParsedObject /\ pWire.type \in KnownTypes)
       => pOut.event.Data = DispatchTable[pWire.type]
  /\ (pOut # NotParsed /\ pWire.doc = "object" /\ pWire.idIsString
      /\ pWire.type \notin KnownTypes)
       => /\ pOut.err = "nil"
          /\ pOut.event.Data \notin PayloadStructs

\* the fields of two payload struct values are the same; a nil and an
\* empty slice both hold no element
SameFieldValues(d1, d2) ==
  /\ d1.struct = d2.struct
  /\ d1.key = d2.key
  /\ d1.media = d2.media
  /\ d1.tags.elems = d2.tags.elems

\* C22: an encoded WebhookEvent of a known type, with the payload struct
\* of that type in Data, parses to an event with the same id, type,
\* timestamp, source and version and a Data of the same struct type with
\* the same field values.
C22_RoundTrip ==
  (pSrc # NoSource /\ pOut # NotParsed)
    => /\ pOut.err = "nil"
       /\ pOut.event.ptr
       /\ pOut.event.Data = pSrc.Data.struct
       /\ pOut.full.ID = pSrc.ID
       /\ pOut.full.Type = pSrc.Type
       /\ pOut.full.Timestamp = pSrc.Timestamp
       /\ pOut.full.Source = pSrc.Source
       /\ pOut.full.Version = pSrc.Version
       /\ SameFieldValues(pOut.full.Data, pSrc.Data)

\* the registry differs from the one before the step in the entry k only
OnlyEntryChanged(k) ==
  /\ Handlers'[k] # Handlers[k]
  /\ \A j \in HandlerKeys \ {k} : Handlers'[j] = Handlers[j]
\* the step is a RegisterHandler or UnregisterHandler call: the registry
\* changes and no StartWebhookServer call moves
RegistryCall == Handlers' # Handlers /\ thr' = thr
\* the step is the handler lookup of the request being served
LookupStep == httpReq.pc = "lookup" /\ httpReq'.pc # "lookup"

\* C23: RegisterHandler and UnregisterHandler work while the server is
\* Running and while it is Stopped; they change the registry entry of the
\* given type only and leave IsRunning, Port and Secret alone; and the
\* lookup of every event dispatched afterwards uses the registry as the
\* calls that returned have left it.
C23_RegistryCallsFrame ==
  [][/\ RegistryCall
          => /\ \E k \in HandlerKeys : OnlyEntryChanged(k)
             /\ UNCHANGED <<IsRunning, Port, Secret>>
     /\ LookupStep
          => /\ httpReq'.handler = Handlers[httpReq.hw.event.Type]
             /\ invoked' # invoked
                  <=> Handlers[httpReq.hw.event.Type] \in {"succeeds", "fails"}
             /\ UNCHANGED <<Handlers, IsRunning, Port, Secret>>]_vars

\* on the Running server a contact event was answered by its handler, which
\* has been unregistered since, while the handler registered for message
\* events is still in place
C23_Witness ==
  /\ IsRunning
  /\ httpReq.pc = "done"
  /\ httpReq.payload = PayloadNoData
  /\ httpReq.handler = "succeeds"
  /\ invoked = <<DecodedEvent(PayloadNoData)>>
  /\ Handlers["contact_created"] = "absent"
  /\ Handlers["message_received"] = "fails"

\* the step is the successful return of thread t's StartWebhookServer
StartSucceeds(t) ==
  /\ thr[t].op = "Start"
  /\ thr[t].pc # "idle"
  /\ thr'[t].pc = "idle"
  /\ thr'[t].ret = "nil"

\* C24: a successful StartWebhookServer(port, m) with m nil leaves every
\* registered handler registered; with m non-nil the registry afterwards
\* is exactly m, so a type that m does not hold has no handler any more;
\* and events are dispatched by that registry.
C24_StartInstallsHandlers ==
  [][/\ \A t \in Threads :
          StartSucceeds(t)
            => /\ thr[t].hs.nil => Handlers' = Handlers
               /\ ~thr[t].hs.nil
                    => \A k \in HandlerKeys : Handlers'[k] = thr[t].hs.map[k]
     /\ invoked' # invoked /\ invoked' # <<>>
          => /\ Handlers[httpReq.hw.event.Type] \in {"succeeds", "fails"}
             /\ invoked' = <<httpReq.hw.event>>]_vars

\* the server was started with a handler map that holds message events
\* only; a contact event was answered 200 without any handler and the
\* registry is that map
C24_Witness ==
  /\ IsRunning
  /\ thr[1].op = "Start" /\ thr[1].ret = "nil"
  /\ ~thr[1].hs.nil
  /\ Handlers = thr[1].hs.map
  /\ Handlers["contact_created"] = "absent"
  /\ httpReq.pc = "done"
  /\ httpReq.payload = PayloadNoData
  /\ httpReq.status = 200
  /\ httpReq.handler = "absent"
  /\ invoked = <<>>

\* the values the configuration can hold: those NewClient and the setters
\* were given, trimmed
WrittenEndpoints == {TrimSuffix(e) : e \in EndpointArgs}
WrittenTokens == TokenValues

\* C25: SetToken and SetAPIEndpoint may run concurrently with DoRequest:
\* no read of the token or the endpoint by a request is unsynchronised
\* with a write of it, and the value a request uses is one that was
\* written, the old or the new.
C25_ConfigReadsSynchronised ==
  /\ getter.unsync = {}
  /\ getter.pc \in {"auth", "done"} => getter.url \in WrittenEndpoints
  /\ getter.pc = "done" => getter.auth \in WrittenTokens

\* the last WithTimeout and WithRetryCount options of a list, if any
RECURSIVE LastOf(_, _, _)
LastOf(os, name, none) ==
  IF os = <<>> THEN none
  ELSE IF os[Len(os)].name = name THEN os[Len(os)]
  ELSE LastOf(SubSeq(os, 1, Len(os) - 1), name, none)
NoOption == Option("none", Duration(0), 0, 0, FALSE)
\* the integers n that callers hand to WithTimeout
TimeoutArgs == {45}

\* C27: a client built with WithTimeout(n), n an integer, has a timeout
\* of n seconds; one built without a timeout option has the timeout of 30
\* seconds, and one built without a retry option the retry count 3.
C27_TimeoutSeconds ==
  built
    => /\ \A n \in TimeoutArgs :
            LastOf(opts, "WithTimeout", NoOption) = WithTimeout(Duration(n))
              => clientConfig.Timeout = Seconds(n)
       /\ LastOf(opts, "WithTimeout", NoOption) = NoOption
            => clientConfig.Timeout = Seconds(30)
       /\ LastOf(opts, "WithRetryCount", NoOption) = NoOption
            => clientConfig.RetryCount = 3

\* C26: with requestsPerSecond = r and burstSize = b, sequential DoRequest
\* calls against a backend that always answers 200 are paced by the
\* bucket: request number b + n is not sent before n / r seconds have
\* passed since the first (with r = 2 and b = 1 the third is sent a second
\* or more after the first), and every call's request reaches the backend.
C26_Paced ==
  /\ \A n \in 1..MaxSends :
       BurstSize + n <= Len(sends)
         => (sends[BurstSize + n] - sends[1]) * RequestsPerSecond >= n * Second
  /\ (RequestsPerSecond = 2 /\ BurstSize = 1 /\ Len(sends) >= 3)
       => sends[3] - sends[1] >= Second
  /\ BurstSize >= 1 => rateCall.failed = 0

\* with two requests per second and a burst of one, three requests were
\* sent as fast as the limiter lets them: the third one second after the
\* first
C26_Witness ==
  /\ RequestsPerSecond = 2
  /\ BurstSize = 1
  /\ Len(sends) = 3
  /\ sends[3] - sends[1] = Second
  /\ sends[2] - sends[1] = 500

\* C28: retries use exponential backoff: the wait before each successive
\* retry of a DoRequest call is the previous wait times a constant factor
\* greater than 1.
C28_ExponentialBackoff ==
  /\ \A n \in 2..Len(waits) : waits[n] > waits[n - 1]
  /\ \A n \in 3..Len(waits) :
       waits[n] * waits[n - 2] = waits[n - 1] * waits[n - 1]

\* C29: every read of the server's port, secret, isRunning and handler
\* registry, the reads of the /health report among them, is made while
\* the reader holds the read lock, so that no read is made while a thread
\* holds the write lock.
C29_ReadsHoldLock ==
  \A i \in 1..Len(health.reads) :
    /\ health.reads[i].locked
    /\ health.reads[i].writer = 0

\* a thread in a service call that waits for s.mutex
WaitsForLock(t) == thr[t].pc \in {"startlock", "stoplock"}
\* the request on /webhook is at one of its RLock calls
RequestNeedsLock == httpReq.pc \in {"secret", "lookup"}

\* C30: no operation holds the state lock while it is blocked in the
\* shutdown wait: no thread is inside Shutdown with s.mutex held, so no
\* caller and no in-flight request waits for the lock for as long as the
\* wait lasts, and StopWebhookServer never waits for a request that waits
\* for the lock Stop holds.
C30_NoLockAcrossShutdown ==
  \A t \in Threads :
    thr[t].pc = "shutdown"
      => /\ mutex # t
         /\ ~(RequestNeedsLock /\ mutex = t)
         /\ \A u \in Threads : WaitsForLock(u) => mutex # t

\* no goroutine has yet to run ListenAndServe and no thread is inside
\* Shutdown: the service is between its transitions
Settled == pending = 0 /\ \A t \in Threads : thr[t].pc # "shutdown"

\* C31: whenever the service reports Running, once the goroutine of the
\* Start has run and outside a Stop in progress, a listener of the service
\* is bound and serving: a Start whose listener cannot bind and a Stop
\* that closed the listener do not leave the service Running.
C31_RunningMeansListening ==
  (GetServerStatus /\ Settled) => Listening

\* C32: for a DoRequest call with a non-nil body, every attempt of the
\* retry loop has the JSON-encoded body of the first attempt to send: the
\* reader built before the loop is not consumed when a later attempt
\* begins.
C32_SameBodyEveryAttempt ==
  \A i \in 1..Len(sentBodies) :
    /\ sentBodies[i] = sentBodies[1]
    /\ body # "nil" => sentBodies[i] = "full"

\* C33: every WATIError the library creates or exports, the predefined
\* error variables among them, has the category the fixed table assigns to
\* its status, so that the category is a function of the status alone.
C33_CategoryByStatus ==
  (IsWATIError(werr) /\ werr.Code >= 400)
    => werr.Type = TableCategory(werr.Code)

ParsingError == "error parsing webhook event"
SignatureError == "invalid webhook signature"

\* C34: HandleWebhook decodes the event before it validates the signature:
\* for a body that does not decode it returns the parsing error whatever
\* the signature is, without reading the secret, and it returns the
\* signature error only for a body that decoded.
C34_DecodeBeforeSignature ==
  /\ (httpReq.pc = "done" /\ httpReq.method = "POST"
        /\ ~Decodes(httpReq.payload))
       => /\ httpReq.hw.err = ParsingError
          /\ ~httpReq.secretRead
  /\ httpReq.hw.err = ParsingError => ~Decodes(httpReq.payload)
  /\ httpReq.hw.err = SignatureError
       => /\ Decodes(httpReq.payload)
          /\ httpReq.secretRead
          /\ ~SignatureValid

\* a body that does not decode, with a signature that validates against
\* the configured secret, was answered with the parsing error
C34_Witness ==
  /\ httpReq.pc = "done"
  /\ httpReq.payload = PayloadBadData
  /\ httpReq.signature = Sign(PayloadBadData, SenderKey)
  /\ Secret = SenderKey
  /\ httpReq.hw.err = ParsingError
  /\ httpReq.status = 400

\* the status a request is answered with, from what the request carried
\* and what it read of the server's state itself
OutcomeOf(r) ==
  IF r.method # "POST" THEN 405
  ELSE IF ~Decodes(r.payload) THEN 400
  ELSE IF ~r.secretRead THEN 400
  ELSE IF ~ValidateSignature(r.payload.bytes, r.signature, r.secret) THEN 400
  ELSE IF r.handler = "fails" THEN 400
  ELSE 200

\* the request on connection i takes a step
Served(i) == reqs'[i] # reqs[i]

\* C35: handling a request on /webhook, whatever its outcome, leaves
\* IsRunning, Port, Secret and the handler registry unchanged and leaves
\* every other request being served as it is; each request is answered by
\* what it carried and read itself.
C35_RequestsIsolated ==
  /\ [](\A i \in Conns :
          reqs[i].pc = "done" => reqs[i].status = OutcomeOf(reqs[i]))
  /\ [][\A i \in Conns :
          Served(i)
            => /\ UNCHANGED <<IsRunning, Port, Secret, Handlers, servers>>
               /\ \A j \in Conns \ {i} :
                    reqs'[j] = reqs[j] /\ ran'[j] = ran[j]]_vars

\* the first request was answered 400 because its handler failed while the
\* handler of the second was running; the second was then answered 200 and
\* the server is Running and listening as before
C35_Witness ==
  /\ reqs[1].pc = "done"
  /\ reqs[1].handler = "fails"
  /\ reqs[1].status = 400
  /\ reqs[2].pc = "done"
  /\ reqs[2].handler = "succeeds"
  /\ reqs[2].status = 200
  /\ ran[1] # <<>>
  /\ ran[2] # <<>>
  /\ IsRunning
  /\ Listening

\* the handler of the request on connection i is called in this step
Called(i) == ran'[i] # ran[i] /\ ran'[i] # <<>>

\* C36: once UnregisterHandler(t) has returned, the removed handler is not
\* invoked for an event of type t, the events of requests that were being
\* processed during the call included: whenever a handler is called, the
\* registry still holds it for the event's type.
C36_NoCallAfterUnregister ==
  [][\A i \in Conns :
       Called(i)
         => Handlers[reqs[i].hw.event.Type] = reqs[i].handler]_vars

RECURSIVE Flatten(_)
\* the sequences of ss, one after the other
Flatten(ss) == IF ss = <<>> THEN <<>> ELSE Head(ss) \o Flatten(Tail(ss))

\* the loop ends after page p: p >= TotalPages or the page has no contacts
LastPage(p) == p >= totalPages \/ pager.fetched[p] = <<>>

\* GetAllContacts asks for the pages 1, 2, 3, ... in order, each once, goes
\* on after a page exactly when that page is not the last, and returns
\* the fetched pages' contacts in page order, or no contacts with the error
PagingInv ==
  /\ \A k \in 1..Len(pager.requested) : pager.requested[k] = k
  /\ \A k \in 1..Len(pager.fetched) :
       k < Len(pager.requested) => ~LastPage(k)
  /\ pager.allContacts = Flatten(pager.fetched)
  /\ (pager.pc = "done" /\ pager.err = "nil")
       => /\ Len(pager.fetched) = Len(pager.requested)
          /\ LastPage(Len(pager.requested))
          /\ pager.contacts = Flatten(pager.fetched)
  /\ (pager.pc = "done" /\ pager.err # "nil")
       => /\ pager.contacts = <<>>
          /\ Len(pager.fetched) = Len(pager.requested) - 1
  /\ Len(pager.requested) <= (IF totalPages < 1 THEN 1 ELSE totalPages)

\* C37: against a backend that reports a fixed finite TotalPages,
\* GetAllContacts terminates: it asks for the pages 1, 2, 3, ... in
\* increasing order, each once, stops after the first page p with
\* p >= TotalPages or with no contacts, and returns the contacts of the
\* fetched pages in page order; when a page request fails it returns the
\* error and no contacts.
C37_PagingTerminates ==
  /\ []PagingInv
  /\ (pager.pc = "fetch") ~> (pager.pc = "done")

\* three pages were fetched from a backend of three pages and their
\* contacts returned in page order
C37_Witness ==
  /\ totalPages = 3
  /\ pager.pc = "done"
  /\ pager.err = "nil"
  /\ pager.requested = <<1, 2, 3>>
  /\ pager.contacts = <<<<1, 1>>, <<1, 2>>, <<2, 1>>, <<3, 1>>, <<3, 2>>>>

\* C38: RotateToken replaces the configured token with the token of the
\* response exactly when its request succeeds, a failed call leaves the
\* token as it was, and a DoRequest call started after a successful
\* rotation, with no later rotation completed meanwhile, sends the rotated
\* token in its Authorization header.
RotationInv ==
  /\ clientConfig.Token =
       IF rotation.rotated = <<>> THEN "t0"
       ELSE rotation.rotated[Len(rotation.rotated)]
  /\ (/\ getter.pc = "done"
      /\ getter.after > 0
      /\ getter.after = Len(rotation.rotated))
       => getter.auth = rotation.rotated[getter.after]
RotationStep ==
  /\ rotation'.failed # rotation.failed
       => clientConfig'.Token = clientConfig.Token
  /\ rotation'.rotated # rotation.rotated
       => /\ rotation.pc = "request"
          /\ clientConfig'.Token = rotation'.rotated[Len(rotation'.rotated)]
  /\ clientConfig'.Token # clientConfig.Token
       => Len(rotation'.rotated) = Len(rotation.rotated) + 1
C38_RotateOnlyOnSuccess == []RotationInv /\ [][RotationStep]_vars
\* a call failed, two succeeded with different tokens, and a request
\* started after them has sent the second
C38_Witness ==
  /\ rotation.failed >= 1
  /\ rotation.rotated = <<"r1", "r2">>
  /\ getter.pc = "done"
  /\ getter.after = 2
  /\ getter.auth = "r2"

\* C39: after any sequence of NewClient and SetAPIEndpoint calls, whatever
\* the endpoint strings, the stored endpoint does not end in "/", so the
\* URL a request builds as endpoint + path has a single "/" at the join.
C39_NoTrailingSlash ==
  /\ built => clientConfig.APIEndpoint.slashes = 0
  /\ (getter.pc \in {"auth", "done"} /\ "APIEndpoint" \notin getter.unsync)
       => getter.url.slashes = 0

====
